---- MODULE Spec2Model ----
(***************************************************************************)
(* Deedoop OS v13 "Hydra": the capability subsystem                        *)
(* (CapabilityCodec, CapabilityRegistry, CapabilityResolver,               *)
(* CapabilityLoader of src/deedoop_os_v13_hydra.py) as a state machine.    *)
(***************************************************************************)
EXTENDS Integers, Sequences, FiniteSets, TLC

\* ---------------------------------------------------------------------
\* Bounds of the model
\* ---------------------------------------------------------------------

\* Upper bound on the number of register() calls that change the registry
\* (each one appends to a _by_type list, which only ever grows).
MaxRegs == 3

\* the number of job dicts _queue_job creates in a run
MaxSubmits == 2

\* the seconds a run lasts
MaxTime == 40

\* the number of publish calls on the stream in a run
MaxPublish == 2

\* v10: the highest version a key of the store is written at
MaxVersion == 2

\* the latest second at which a node of the pair is started
MaxStart == 4

\* ---------------------------------------------------------------------
\* CapabilityState (the enum values the loader assigns)
\* ---------------------------------------------------------------------
LOADED == "loaded"
ACTIVE == "active"
SUSPENDED == "suspended"
FAILED == "failed"

\* ---------------------------------------------------------------------
\* Capability source code.  A source text is a number 1..4; what running
\* it does is given by SourceCode: the names it reads from its namespace
\* at top level (a NameError when one is missing), the names it binds,
\* which of those are callables and which callables raise when called.
\* ---------------------------------------------------------------------
\* what the built-in sources CAP_CORE_IDENTITY .. CAP_QUINE_SELF bind: a
\* class and the names assigned from it
CoreDefines ==
  << {"NodeIdentity", "IDENTITY_CLASS"}, {"HydraConfig", "CONFIG"},
     {"HardwareProbe", "NodeResources", "HARDWARE_PROBE", "RESOURCES_CLASS"},
     {"MeshNetwork", "MESH_CLASS"}, {"ContainerRuntime", "CONTAINER_CLASS"},
     {"PythonExecutor", "PYTHON_EXECUTOR"}, {"BlenderExecutor", "BLENDER_EXECUTOR"},
     {"QuineSelf", "QUINE_SELF_CLASS"} >>

\* a built-in source: every name it binds is a class, except CONFIG, the
\* HydraConfig() built when core.config is executed, which creates the data
\* and work directories: "makedirs" stands for a machine on which that
\* succeeds.  No built-in raises when its class is only looked up.
CoreCode(defines) ==
  [needs |-> IF "CONFIG" \in defines THEN {"makedirs"} ELSE {},
   defines |-> defines, callables |-> defines \ {"CONFIG"}, raising |-> {}]

SourceCode ==
  << [needs |-> {},    defines |-> {"X"},         callables |-> {},       raising |-> {}],
     [needs |-> {},    defines |-> {"X", "__cleanup__"}, callables |-> {"__cleanup__"},
                       raising |-> {"__cleanup__"}],
     [needs |-> {"X"}, defines |-> {"Y", "main"}, callables |-> {"main"}, raising |-> {}],
     [needs |-> {},    defines |-> {"main"},      callables |-> {"main"}, raising |-> {"main"}] >>
    \o [i \in 1..8 |-> CoreCode(CoreDefines[i])]
    \o << [needs |-> {}, defines |-> {"main"}, callables |-> {"main"}, raising |-> {"main"}] >>

\* the source texts: 1..4 of plugins, 5..12 of the built-ins, 13 a plugin
\* whose main() calls sys.exit()
Sources == 1..13

\* A value bound to a name: the object that source text src binds to sym.
Value(src, sym) == [src |-> src, sym |-> sym]

\* The loader object itself, bound to 'HYDRA' in the shared namespace.
HydraSelf == [src |-> 0, sym |-> "HYDRA"]

callable(v) == v.src \in Sources /\ v.sym \in SourceCode[v.src].callables

CallRaises(v) == v.src \in Sources /\ v.sym \in SourceCode[v.src].raising

\* what the call raises is no Exception (SystemExit, KeyboardInterrupt): an
\* "except Exception" clause does not catch it
RaisesBaseException(v) == CallRaises(v) /\ v.src = 13

\* ---------------------------------------------------------------------
\* CapabilityCodec
\* ---------------------------------------------------------------------
GenomeBase == 100
HashBase == 200

\* compress(source) -> (genome, genome_hash): genome is the armoured
\* compressed text, genome_hash the truncated digest of the source.
compress(source) == [genome |-> GenomeBase + source, genome_hash |-> HashBase + source]

DecodeError == -1

\* decompress(genome): the source, or DecodeError for the ValueError raised.
decompress(genome) ==
  IF (genome - GenomeBase) \in Sources THEN genome - GenomeBase ELSE DecodeError

\* verify(genome, expected_hash): False on any decode error.
verify(genome, expected_hash) ==
  LET source == decompress(genome)
  IN  IF source = DecodeError THEN FALSE
      ELSE compress(source).genome_hash = expected_hash

\* ---------------------------------------------------------------------
\* Manifests handed to register / hot_swap
\* ---------------------------------------------------------------------
Ids == {"a", "b", "c"}

\* Names that may be asked of the resolver and loader: the ids and a
\* provided name "p" that is no id.
Names == Ids \cup {"p"}

Manifest(id, type, deps, provides, genome, hash, hot, entry, exports) ==
  [id |-> id, type |-> type, dependencies |-> deps, provides |-> provides,
   genome |-> genome, genome_hash |-> hash, hot_swappable |-> hot,
   entry_point |-> entry, exports |-> exports]

\* create_manifest(...): genome and genome_hash computed from the source.
create_manifest(id, type, source, deps, provides, hot, entry, exports) ==
  Manifest(id, type, deps, provides, compress(source).genome,
           compress(source).genome_hash, hot, entry, exports)

mA1 == create_manifest("a", "plugin", 3, <<"p", "b">>, <<"a">>, TRUE, "main", <<"Y">>)
mA2 == create_manifest("a", "core", 4, <<"b">>, <<"a">>, TRUE, "main", <<"main">>)
mB1 == create_manifest("b", "core", 1, <<>>, <<"b", "p">>, TRUE, "", <<"X", "Z">>)
mB2 == create_manifest("b", "core", 2, <<"a">>, <<"b">>, FALSE, "", <<"X">>)
mC1 == create_manifest("c", "plugin", 3, <<>>, <<"c">>, TRUE, "main", <<"Y">>)
\* genome of source 1 under the hash of source 2: fails verification
mC2 == Manifest("c", "plugin", <<"b">>, <<"c">>, compress(1).genome,
                compress(2).genome_hash, TRUE, "", <<"X">>)

Manifests == {mA1, mA2, mB1, mB2, mC1, mC2}

\* a plugin whose entry point ends with sys.exit()
mC3 == create_manifest("c", "plugin", 13, <<>>, <<"c">>, TRUE, "main", <<"main">>)

\* the manifests of the runs in which activation steps raise: b needs
\* nothing, a's source reads X and its entry point returns, a's second
\* generation and c's third raise in the entry point
RaisingManifests == {mA1, mA2, mB1, mC3}

Types == {"core", "plugin"}

\* the values of CapabilityType
CapabilityTypes == {"core", "compute", "storage", "network", "quine", "executor", "plugin"}

\* "no manifest" / "no capability" (Python None, or a missing dict key)
None == [none |-> TRUE]

\* "no id" in the provides index (a missing dict key)
NoId == ""

Range(s) == {s[i] : i \in DOMAIN s}

\* create_core_capabilities(): the built-in manifests, in list order
create_core_capabilities ==
  << create_manifest("core.identity", "core", 5, <<>>,
                     <<"identity", "crypto", "encryption">>, TRUE, "", <<"IDENTITY_CLASS">>),
     create_manifest("core.config", "core", 6, <<>>,
                     <<"config", "settings">>, TRUE, "", <<"CONFIG", "HydraConfig">>),
     create_manifest("core.hardware", "core", 7, <<>>,
                     <<"hardware", "resources", "probe">>, TRUE, "",
                     <<"HARDWARE_PROBE", "RESOURCES_CLASS">>),
     create_manifest("network.mesh", "network", 8, <<"core.identity", "core.config">>,
                     <<"mesh", "p2p", "broadcast", "discovery">>, TRUE, "", <<"MESH_CLASS">>),
     create_manifest("compute.container", "compute", 9, <<"core.config">>,
                     <<"docker", "podman", "container">>, TRUE, "", <<"CONTAINER_CLASS">>),
     create_manifest("compute.python", "executor", 10, <<"core.config">>,
                     <<"python", "script">>, TRUE, "", <<"PYTHON_EXECUTOR">>),
     create_manifest("compute.blender", "compute", 11, <<"core.config">>,
                     <<"blender", "render">>, TRUE, "", <<"BLENDER_EXECUTOR">>),
     create_manifest("quine.self", "quine", 12, <<>>,
                     <<"quine", "self-reference", "evolution">>, TRUE, "",
                     <<"QUINE_SELF_CLASS">>) >>

\* the ids of the built-in manifests
CoreIds ==
  {"core.identity", "core.config", "core.hardware", "network.mesh",
   "compute.container", "compute.python", "compute.blender", "quine.self"}

\* the names the built-in manifests provide, and their ids
CoreNames ==
  {"core.identity", "core.config", "core.hardware", "network.mesh",
   "compute.container", "compute.python", "compute.blender", "quine.self",
   "identity", "crypto", "encryption", "config", "settings", "hardware", "resources",
   "probe", "mesh", "p2p", "broadcast", "discovery", "docker", "podman", "container",
   "python", "script", "blender", "render", "quine", "self-reference", "evolution"}

\* ---------------------------------------------------------------------
\* CapabilityRegistry
\* ---------------------------------------------------------------------
\* A registry value: _manifests (id -> manifest or None), _by_type
\* (type -> list of ids), _provides (name -> id or None).
EmptyRegistry ==
  [manifests |-> [i \in Ids |-> None],
   by_type   |-> [t \in Types |-> <<>>],
   provides  |-> [n \in Names |-> NoId]]

\* for provided in manifest.provides: self._provides[provided] = manifest.id
RECURSIVE SetProvides(_, _, _)
SetProvides(prov, names, id) ==
  IF names = <<>> THEN prov
  ELSE SetProvides([prov EXCEPT ![Head(names)] = id], Tail(names), id)

\* register(manifest) returns False and changes nothing when the id is
\* known under the same genome_hash
RegisterIsNoop(reg, m) ==
  /\ reg.manifests[m.id] # None
  /\ reg.manifests[m.id].genome_hash = m.genome_hash

\* register that keeps the first manifest seen under an id
registerKeepsFirst(reg, m) ==
  IF reg.manifests[m.id] # None THEN reg
  ELSE [manifests |-> [reg.manifests EXCEPT ![m.id] = m],
        by_type   |-> [reg.by_type EXCEPT ![m.type] = Append(@, m.id)],
        provides  |-> SetProvides(reg.provides, m.provides, m.id)]

\* register without the test for an identical (id, genome_hash)
registerAlwaysStores(reg, m) ==
  [manifests |-> [reg.manifests EXCEPT ![m.id] = m],
   by_type   |-> [reg.by_type EXCEPT ![m.type] = Append(@, m.id)],
   provides  |-> SetProvides(reg.provides, m.provides, m.id)]

\* the registry after register(manifest)
register(reg, m) ==
  IF RegisterIsNoop(reg, m) THEN reg
  ELSE [manifests |-> [reg.manifests EXCEPT ![m.id] = m],
        by_type   |-> [reg.by_type EXCEPT ![m.type] = Append(@, m.id)],
        provides  |-> SetProvides(reg.provides, m.provides, m.id)]

\* the value register(manifest) returns
registerReturns(reg, m) == ~RegisterIsNoop(reg, m)

\* get(id): names that are not ids are not keys of _manifests
get(reg, id) == IF id \in Ids \/ id \in CoreIds THEN reg.manifests[id] ELSE None

find_provider(reg, requirement) ==
  IF requirement \in Names \/ requirement \in CoreNames
  THEN reg.provides[requirement] ELSE NoId

\* ---------------------------------------------------------------------
\* CapabilityResolver
\* ---------------------------------------------------------------------
\* The traversal state of resolve: the visited set, the result list and
\* the error raised ("" while none).
ResolveStart == [visited |-> {}, result |-> <<>>, error |-> ""]

RECURSIVE visit(_, _, _)
RECURSIVE visitDeps(_, _, _, _)

\* for dep in manifest.dependencies: visit(dep); an exception ends the loop
visitDeps(reg, deps, i, st) ==
  IF i > Len(deps) \/ st.error # "" THEN st
  ELSE visitDeps(reg, deps, i + 1, visit(reg, deps[i], st))

visit(reg, id, st) ==
  IF st.error # "" THEN st
  ELSE IF id \in st.visited THEN st
  ELSE
    LET st1      == [st EXCEPT !.visited = @ \cup {id}]
        direct   == get(reg, id)
        provider == IF direct = None THEN find_provider(reg, id) ELSE NoId
        manifest == IF direct # None THEN direct
                    ELSE IF provider # NoId THEN get(reg, provider)
                    ELSE None
        id2      == IF direct = None /\ provider # NoId THEN provider ELSE id
    IN  IF manifest = None
        THEN [st1 EXCEPT !.error = "ValueError: Cannot resolve capability"]
        ELSE LET st2 == visitDeps(reg, manifest.dependencies, 1, st1)
             IN  IF st2.error # "" THEN st2
                 ELSE [st2 EXCEPT !.result = Append(@, id2)]

\* resolve(capability_id): [result, error]; no list is returned when
\* error is not "".
resolve(reg, capability_id) ==
  LET st == visit(reg, capability_id, ResolveStart)
  IN  [result |-> IF st.error = "" THEN st.result ELSE <<>>, error |-> st.error]

\* ---------------------------------------------------------------------
\* CapabilityLoader
\* ---------------------------------------------------------------------
\* A loader value: _loaded and _active (id -> Capability or None) and the
\* shared namespace (a function from the bound names to their values).
\* A Capability is [manifest, state, source, namespace, error]; the same
\* object sits in _loaded and _active, so a change of its fields shows in
\* both.
Capability(manifest, state, source) ==
  [manifest |-> manifest, state |-> state, source |-> source,
   namespace |-> <<>>, error |-> ""]

EmptyLoader ==
  [loaded |-> [i \in Ids |-> None],
   active |-> [i \in Ids |-> None],
   shared |-> ("HYDRA" :> HydraSelf)]

InLoaded(L, id) == (id \in Ids \/ id \in CoreIds) /\ L.loaded[id] # None

InActive(L, id) == (id \in Ids \/ id \in CoreIds) /\ L.active[id] # None

\* load(capability_id): the loader afterwards and the error raised
\* ("" when the capability is returned).
load(L, reg, capability_id) ==
  IF InLoaded(L, capability_id) THEN [L |-> L, error |-> ""]
  ELSE LET manifest == get(reg, capability_id)
       IN  IF manifest = None
           THEN [L |-> L, error |-> "ValueError: Unknown capability"]
           ELSE IF ~verify(manifest.genome, manifest.genome_hash)
           THEN [L |-> L, error |-> "ValueError: Genome integrity check failed"]
           ELSE [L |-> [L EXCEPT !.loaded[capability_id] =
                          Capability(manifest, LOADED, decompress(manifest.genome))],
                 error |-> ""]

\* exec(source, namespace): the namespace afterwards, or a NameError when
\* the code reads a name that is not bound.
execRaises(source, namespace) ==
  ~(SourceCode[source].needs \subseteq DOMAIN namespace)

\* the namespace after the names of a source text are bound in it
bind(source, namespace, defines) ==
  [k \in (DOMAIN namespace) \cup defines |->
     IF k \in defines THEN Value(source, k) ELSE namespace[k]]

exec(source, namespace) == bind(source, namespace, SourceCode[source].defines)

\* for export in capability.manifest.exports:
\*     if export in namespace: self._shared_namespace[export] = namespace[export]
RECURSIVE ExportSymbols(_, _, _)
ExportSymbols(shared, exports, namespace) ==
  IF exports = <<>> THEN shared
  ELSE LET export == Head(exports)
       IN  ExportSymbols(IF export \in DOMAIN namespace
                           THEN (export :> namespace[export]) @@ shared
                           ELSE shared,
                         Tail(exports), namespace)

\* Does the entry point get called, and does the call raise?
EntryRaises(manifest, namespace) ==
  /\ manifest.entry_point # ""
  /\ manifest.entry_point \in DOMAIN namespace
  /\ callable(namespace[manifest.entry_point])
  /\ CallRaises(namespace[manifest.entry_point])

\* A change of the fields of the capability object now in _loaded[id];
\* _active[id], when set, is that same object.
SetCapability(L, id, cap) ==
  [L EXCEPT !.loaded[id] = cap,
            !.active[id] = IF @ = None THEN None ELSE cap]

\* _activate_single(capability) for the capability load(id) returned.
activate_single(L, id) ==
  LET capability == L.loaded[id]
      namespace0 == ("__capability_id__" :> [src |-> 0, sym |-> id])
                    @@ ("__capability_manifest__" :> [src |-> 0, sym |-> "manifest"])
                    @@ L.shared
  IN  IF execRaises(capability.source, namespace0)
      THEN [L |-> SetCapability(L, id, [capability EXCEPT !.state = FAILED,
                                                         !.error = "NameError"]),
            error |-> "NameError"]
      ELSE
        LET namespace == exec(capability.source, namespace0)
            shared1   == ExportSymbols(L.shared, capability.manifest.exports, namespace)
            cap1      == [capability EXCEPT !.namespace = namespace, !.state = ACTIVE]
        IN  IF EntryRaises(capability.manifest, namespace)
               /\ RaisesBaseException(namespace[capability.manifest.entry_point])
            THEN [L |-> [SetCapability(L, id, cap1) EXCEPT !.shared = shared1],
                  error |-> "SystemExit"]
            ELSE IF EntryRaises(capability.manifest, namespace)
            THEN [L |-> [SetCapability(L, id, [cap1 EXCEPT !.state = FAILED,
                                                          !.error = "EntryError"])
                           EXCEPT !.shared = shared1],
                  error |-> "EntryError"]
            ELSE [L |-> [L EXCEPT !.loaded[id] = cap1, !.active[id] = cap1,
                                  !.shared = shared1],
                  error |-> ""]

\* The loop of activate over the load order.  log lists, in order, what
\* entered ("activate") or left ("deactivate") the active set.
Event(ev, id) == [ev |-> ev, id |-> id]

RECURSIVE activateOrder(_, _, _, _)
activateOrder(L, reg, load_order, log) ==
  IF load_order = <<>> THEN [L |-> L, error |-> "", log |-> log]
  ELSE LET dep_id == Head(load_order)
       IN  IF InActive(L, dep_id)
           THEN activateOrder(L, reg, Tail(load_order), log)
           ELSE LET ld == load(L, reg, dep_id)
                IN  IF ld.error # "" THEN [L |-> ld.L, error |-> ld.error, log |-> log]
                    ELSE LET act == activate_single(ld.L, dep_id)
                         IN  IF act.error # ""
                             THEN [L |-> act.L, error |-> act.error, log |-> log]
                             ELSE activateOrder(act.L, reg, Tail(load_order),
                                                Append(log, Event("activate", dep_id)))

\* activate(capability_id): the loader afterwards, the error raised ("" when
\* a capability is returned) and the log of the call.
activate(L, reg, capability_id) ==
  IF InActive(L, capability_id) THEN [L |-> L, error |-> "", log |-> <<>>]
  ELSE LET r == resolve(reg, capability_id)
       IN  IF r.error # "" THEN [L |-> L, error |-> r.error, log |-> <<>>]
           ELSE LET done == activateOrder(L, reg, r.result, <<>>)
                IN  IF done.error # "" THEN done
                    ELSE IF ~InActive(done.L, capability_id)
                    THEN [done EXCEPT !.error = "KeyError"]
                    ELSE done

\* a deactivate that also unbinds what the capability exported
deactivateUnbinds(L, capability_id) ==
  IF InActive(L, capability_id)
  THEN LET cap == [L.active[capability_id] EXCEPT !.state = SUSPENDED]
           exports == Range(cap.manifest.exports)
       IN  [L EXCEPT !.active[capability_id] = None,
                     !.loaded[capability_id] = IF @ = None THEN None ELSE cap,
                     !.shared = [k \in (DOMAIN @) \ exports |-> @[k]]]
  ELSE L

\* deactivate(capability_id); a __cleanup__ callable of the capability's
\* namespace is called and whatever it raises is swallowed.
deactivate(L, capability_id) ==
  IF InActive(L, capability_id)
  THEN LET cap == [L.active[capability_id] EXCEPT !.state = SUSPENDED]
       IN  [L EXCEPT !.active[capability_id] = None,
                     !.loaded[capability_id] = IF @ = None THEN None ELSE cap]
  ELSE L

\* hot_swap(new_manifest): the registry and loader afterwards, the value
\* returned ("True"/"False") or the error raised, and the log of the call.
\* a hot_swap that never looks at hot_swappable
HotSwapNeverRefused(L, new_manifest) == FALSE

HotSwapRefused(L, new_manifest) ==
  /\ InActive(L, new_manifest.id)
  /\ ~L.active[new_manifest.id].manifest.hot_swappable

\* a hot_swap that puts the old instance back when the activation raises
hot_swapRestores(L, reg, new_manifest) ==
  IF HotSwapRefused(L, new_manifest)
  THEN [L |-> L, reg |-> reg, ret |-> "False", error |-> "", log |-> <<>>]
  ELSE
    LET old  == InActive(L, new_manifest.id)
        L1   == IF old
                THEN [deactivate(L, new_manifest.id) EXCEPT !.loaded[new_manifest.id] = None]
                ELSE L
        log1 == IF old THEN <<Event("deactivate", new_manifest.id)>> ELSE <<>>
        reg1 == register(reg, new_manifest)
        act  == activate(L1, reg1, new_manifest.id)
    IN  [L |-> IF act.error # "" /\ old
               THEN [act.L EXCEPT !.active[new_manifest.id] = L.active[new_manifest.id],
                                  !.loaded[new_manifest.id] = L.loaded[new_manifest.id]]
               ELSE act.L,
         reg |-> reg1,
         ret |-> IF act.error = "" THEN "True" ELSE "",
         error |-> act.error, log |-> log1 \o act.log]

hot_swap(L, reg, new_manifest) ==
  IF HotSwapRefused(L, new_manifest)
  THEN [L |-> L, reg |-> reg, ret |-> "False", error |-> "", log |-> <<>>]
  ELSE
    LET old  == InActive(L, new_manifest.id)
        L1   == IF old
                THEN [deactivate(L, new_manifest.id) EXCEPT !.loaded[new_manifest.id] = None]
                ELSE L
        log1 == IF old THEN <<Event("deactivate", new_manifest.id)>> ELSE <<>>
        reg1 == register(reg, new_manifest)
        act  == activate(L1, reg1, new_manifest.id)
    IN  [L |-> act.L, reg |-> reg1,
         ret |-> IF act.error = "" THEN "True" ELSE "",
         error |-> act.error, log |-> log1 \o act.log]

\* ---------------------------------------------------------------------
\* Jobs: the table, the worker loop and the executors
\* ---------------------------------------------------------------------

\* JSON values of a submission: a string, a number, an object, or a key
\* that is not there
Str(s) == [json |-> "string", v |-> s]

Num(s) == [json |-> "number", v |-> s]

Obj(s) == [json |-> "object", v |-> s]

Absent == [json |-> "absent", v |-> ""]

JobData(id, type, spec) == [id |-> id, type |-> type, spec |-> spec]

\* bodies of POST /submit and jobs of JOB_SUBMIT packets: what json.loads
\* and the packet decoder hand to _queue_job
Submissions ==
  { JobData(Absent, Absent, Obj("code")),
    JobData(Str("j1"), Str("python"), Obj("code")),
    JobData(Str("j1"), Str("container"), Obj("image")),
    JobData(Absent, Str("foo"), Absent),
    JobData(Num("5"), Str("foo"), Obj("code")),
    JobData(Absent, Str("python"), Str("print(1)")) }

\* the types the CLI's run command is given
JobTypes == {"python", "container", "foo"}

\* uuid.uuid4().hex[:12]: an id no earlier call has produced
uuid4(n) == Str("u" \o ToString(n))

\* an optional integer: the exit_code key of a job dict
Missing == <<>>

Some(n) == <<n>>

\* _queue_job(job_data): a new job dict stored under its id, in place of
\* the dict that was there
queue_job(table, hp, job_data) ==
  LET job_id == IF job_data.id = Absent THEN uuid4(Len(hp) + 1) ELSE job_data.id
      job == [id        |-> job_id,
              type      |-> IF job_data.type = Absent THEN Str("python") ELSE job_data.type,
              spec      |-> IF job_data.spec = Absent THEN Obj("") ELSE job_data.spec,
              status    |-> "pending",
              exit_code |-> Missing,
              error     |-> <<>>]
      obj == Len(hp) + 1
      at == {k \in DOMAIN table : table[k].id = job_id}
  IN  [jobs |-> IF at = {}
                THEN Append(table, [id |-> job_id, obj |-> obj])
                ELSE [k \in DOMAIN table |->
                        IF k \in at THEN [id |-> job_id, obj |-> obj] ELSE table[k]],
       heap |-> Append(hp, job),
       ret  |-> job_id]

\* what an executor call or the worker's try block ends in: a return
\* of (exit code, stderr) or an exception; texts are sequences of words
Return(ec, err) == [raised |-> FALSE, exc |-> "", ec |-> ec, err |-> err]

Raise(exc, err) == [raised |-> TRUE, exc |-> exc, ec |-> 0, err |-> err]

\* what the machine does to an executor call: the child exits with 0 or
\* with 2, outlives the timeout, cannot be started, or the job directory
\* cannot be made
Outcomes == {"exit0", "exit2", "timeout", "oserror", "makedirs"}

\* str() of the exceptions raised
TimeoutExpiredText == <<"Command", "timed", "out", "after", "3600", "seconds">>

OSErrorText == <<"No", "such", "file", "or", "directory">>

MakedirsText == <<"Permission", "denied">>

JoinTypeErrorText == <<"expected", "str", "bytes", "or", "os.PathLike", "object", "not", "int">>

SubscriptTypeErrorText == <<"'int'", "object", "is", "not", "subscriptable">>

AttributeErrorText == <<"'str'", "object", "has", "no", "attribute", "'get'">>

\* subprocess.run(..., timeout=timeout) under the machine's outcome
subprocess_run(e) ==
  CASE e = "exit0" -> Return(0, <<>>)
    [] e = "exit2" -> Return(2, <<"stderr">>)
    [] e = "timeout" -> Raise("TimeoutExpired", TimeoutExpiredText)
    [] OTHER -> Raise("OSError", OSErrorText)

\* PythonExecutor.execute(job_id, code=spec.get('code'), ...)
PythonExecutor_execute(job_id, spec, e) ==
  IF job_id.json # "string" THEN Raise("TypeError", JoinTypeErrorText)
  ELSE IF e = "makedirs" THEN Raise("OSError", MakedirsText)
  ELSE IF spec.v # "code" THEN Return(1, <<"No", "code", "or", "script">>)
  ELSE LET r == subprocess_run(e)
       IN  IF ~r.raised THEN r ELSE Return(1, r.err)

\* ContainerRuntime.run(job_id, image=spec.get('image', 'alpine'), ...)
ContainerRuntime_run(runtime, job_id, spec, e) ==
  IF ~runtime THEN Return(1, <<"No", "container", "runtime">>)
  ELSE IF job_id.json # "string" THEN Raise("TypeError", JoinTypeErrorText)
  ELSE IF e = "makedirs" THEN Raise("OSError", MakedirsText)
  ELSE LET r == subprocess_run(e)
       IN  IF ~r.raised THEN r
           ELSE IF r.exc = "TimeoutExpired" THEN Return(-1, <<"Timeout">>)
           ELSE Return(1, r.err)

\* f"Unknown job type: {jtype}"
UnknownJobType(jtype) == <<"Unknown", "job", "type:", jtype.v>>

\* the executor a job of the type is handed to; "" when there is none
ExecutorOf(jtype) ==
  IF jtype = Str("python") THEN "python"
  ELSE IF jtype = Str("container") THEN "container"
  ELSE ""

\* the dispatch on job['type'] inside the worker's try block
dispatch(runtime, job, e) ==
  IF ExecutorOf(job.type) = ""
  THEN Return(1, UnknownJobType(job.type))
  ELSE IF job.spec.json # "object" THEN Raise("AttributeError", AttributeErrorText)
  ELSE IF ExecutorOf(job.type) = "python"
       THEN PythonExecutor_execute(job.id, job.spec, e)
       ELSE ContainerRuntime_run(runtime, job.id, job.spec, e)

\* word in text
Mentions(text, word) == \E k \in DOMAIN text : text[k] = word

\* the first pending job dict of the table, 0 when there is none
FirstPending(table, hp) ==
  LET P == {k \in DOMAIN table : hp[table[k].obj].status = "pending"}
  IN  IF P = {} THEN 0
      ELSE table[CHOOSE k \in P : \A j \in P : k <= j].obj

\* j['status'] = 'running' without taking the job: the claim leaves the
\* job pending
claimLeavesPending(hp, obj) == hp

\* j['status'] = 'running' on the job found pending, under jobs_lock
claim(hp, obj) == [hp EXCEPT ![obj].status = "running"]

\* the with-block writing completed whatever the exit code
recordCompleted(hp, obj, r) ==
  [hp EXCEPT ![obj].status = "completed",
             ![obj].exit_code = Some(r.ec),
             ![obj].error = r.err]

\* the with-block after the executor call returned
record(hp, obj, r) ==
  [hp EXCEPT ![obj].status = IF r.ec = 0 THEN "completed" ELSE "failed",
             ![obj].exit_code = Some(r.ec),
             ![obj].error = r.err]

\* the except branch of the worker
except(hp, obj, err) ==
  [hp EXCEPT ![obj].status = "failed", ![obj].error = err]

Workers == {"w1", "w2"}

WorkerIdle == [pc |-> "idle", job |-> 0, ran |-> "", outcome |-> "", result |-> Return(0, <<>>)]

\* ---------------------------------------------------------------------
\* Mesh: peers, the listener and the heartbeat
\* ---------------------------------------------------------------------

\* HydraConfig.node_id of this node
node_id == "n1"

\* the node ids of the cluster: this node and one other
NodeIds == {"n1", "n2"}

\* HydraConfig.heartbeat, in seconds
heartbeat == 5

\* HydraConfig.timeout, in seconds
timeout == 30

\* a decrypted packet
Packet(src, op, job, manifest) ==
  [src |-> src, op |-> op, job |-> job, manifest |-> manifest]

\* CapabilityType.value: an enum member is written as its JSON string
CapabilityTypeValue(type) == Str(type)

\* CapabilityType(value): the member of that value; a value that names no
\* member is a ValueError
IsCapabilityType(value) == value.json = "string" /\ value.v \in CapabilityTypes

CapabilityTypeOf(value) == value.v

\* a to_dict that sends no genome hash
to_dictUnhashed(m) == [m EXCEPT !.type = CapabilityTypeValue(m.type), !.genome_hash = 0]

\* manifest.to_dict(): the fields, the type as its value
to_dict(m) == [m EXCEPT !.type = CapabilityTypeValue(m.type)]

\* CapabilityManifest.from_dict(d) raises on a type that is no member
FromDictRaises(d) == ~IsCapabilityType(d.type)

from_dict(d) == [d EXCEPT !.type = CapabilityTypeOf(d.type)]

\* the jobs JOB_SUBMIT packets carry
MeshJobs == {JobData(Str("j1"), Str("python"), Obj("code"))}

Packets ==
  {Packet(s, "PING", Absent, None) : s \in NodeIds}
    \cup {Packet(s, "JOB_SUBMIT", j, None) : s \in NodeIds, j \in MeshJobs}
    \cup {Packet(s, "CAPABILITY_ANNOUNCE", Absent, to_dict(mB1)) : s \in NodeIds}

\* a datagram: a packet encrypted under a swarm key
Datagrams == {[key |-> k, pkt |-> p] : k \in {"skey", "other"}, p \in Packets}

\* the datagrams of this cluster's other node that submit a job
JobDatagrams ==
  {d \in Datagrams : d.key = "skey" /\ d.pkt.src # node_id /\ d.pkt.op = "JOB_SUBMIT"}

\* a manifest dict whose type names no CapabilityType
BadDict == [to_dict(mC1) EXCEPT !.type = Str("bogus")]

\* a dict (JSON object), as against a string, a number or a list
IsDict(x) == ("json" \notin DOMAIN x) \/ x.json = "object"

\* a JSON list
JsonList == [json |-> "array", v |-> ""]

\* a CAPABILITY_REQUEST packet for an id
Request(src, id) == ("id" :> id) @@ Packet(src, "CAPABILITY_REQUEST", Absent, None)

\* the packets of the other node that reach the opcode handlers, sound and
\* unsound
WirePackets ==
  { Packet("n2", "CAPABILITY_ANNOUNCE", Absent, to_dict(mB1)),
    Packet("n2", "CAPABILITY_ANNOUNCE", Absent, BadDict),
    Request("n2", "b"),
    Packet("n2", "CAPABILITY_RESPONSE", Absent, to_dict(mC1)),
    Packet("n2", "CAPABILITY_RESPONSE", Absent, BadDict),
    Packet("n2", "JOB_SUBMIT", Str("x"), None) }

\* what the listener receives: packets under this swarm's key, a packet
\* under another key, and a datagram that decrypts to JSON that is no
\* envelope
WireDatagrams ==
  {[key |-> "skey", pkt |-> q] : q \in WirePackets}
    \cup {[key |-> "other", pkt |-> Packet("n2", "CAPABILITY_RESPONSE", Absent, to_dict(mC1))],
          [key |-> "skey", pkt |-> JsonList]}

\* the decrypted JSON is a dict with a src
IsEnvelope(pkt) == "src" \in DOMAIN pkt

\* Identity.decrypt(data): the packet, None under another key
decrypt(data) == IF data.key = "skey" THEN data.pkt ELSE None

\* a listener that drops only what it cannot decrypt
IgnoredUndecrypted(pkt) == pkt = None

\* if not pkt or pkt.get('src') == self.config.node_id: continue
Ignored(pkt) == pkt = None \/ pkt.src = node_id

\* a cleanup that drops every peer
cleanupAll(ps, t) == [n \in NodeIds |-> None]

\* the peers left after the heartbeat's cleanup at time t
cleanup(ps, t) ==
  [n \in NodeIds |->
     IF ps[n] # None /\ t - ps[n].seen > timeout THEN None ELSE ps[n]]

\* get_peers(): the ids of the peer registry
get_peers(ps) == {n \in NodeIds : ps[n] # None}

\* ---------------------------------------------------------------------
\* CapabilityStream
\* ---------------------------------------------------------------------

\* the callbacks subscribed: the loader's _on_capability_received, a
\* subscriber that raises on core manifests, a subscriber that returns
Callbacks == {"loader", "bad", "log"}

SubscriberRaises(callback, manifest) == callback = "bad" /\ manifest.type = "core"

\* the manifests published
StreamManifests == {mB1, mC1}

\* publish(manifest): self._queue.put(manifest)
publish(st, m) ==
  [st EXCEPT !.queue = Append(@, m), !.published = Append(@, m)]

\* the number of manifests the worker has taken from the queue
Taken(st) == Len(st.published) - Len(st.queue)

\* subscribe(callback)
subscribe(st, callback) ==
  [st EXCEPT !.subscribers = Append(@, callback),
             !.subscribed = Append(@, Taken(st))]

\* stop(): self._running = False
stop(st) == [st EXCEPT !.running = FALSE, !.stopped = Taken(st)]

\* a worker that goes on to the next manifest when a subscriber raises
callNextAbandons(st, raised) ==
  IF raised THEN Len(st.subscribers) + 1 ELSE st.k + 1

\* the subscriber called after subscriber k: the exception is caught and
\* printed inside the for loop
callNext(st, raised) == st.k + 1

\* ---------------------------------------------------------------------
\* The HTTP face: do_POST and do_GET
\* ---------------------------------------------------------------------

\* a request body that json.loads rejects
NotJson == [json |-> "invalid", v |-> ""]

\* a JSON object posted to /inject
InjectBody(id, type, source, deps, provides, exports) ==
  [id |-> id, type |-> type, source |-> source, dependencies |-> deps,
   provides |-> provides, exports |-> exports]

InjectBodies ==
  { InjectBody("b", Str("core"), 1, <<>>, <<"b", "p">>, <<"X", "Z">>),
    InjectBody("c", Str("plugin"), 3, <<>>, <<>>, <<"Y">>),
    InjectBody("c", Str("bogus"), 3, <<>>, <<>>, <<"Y">>) }

\* request bytes that are no UTF-8 text
NotUtf8 == [json |-> "undecodable", v |-> ""]

\* the bodies that are no JSON object
NoObjects == {NotUtf8, NotJson, JsonList, Str("x")}

\* the path of a request, as its segments
PostPaths == {<<"inject">>, <<"submit">>, <<"nope">>}

GetPaths == {<<"capability", i>> : i \in Ids} \cup {<<"health">>, <<"nope">>}

PathText(path) ==
  IF Len(path) = 1 THEN "/" \o path[1] ELSE "/" \o path[1] \o "/" \o path[2]

\* the bodies posted to a path
BodiesOf(path) ==
  NoObjects \cup (IF path = <<"inject">> THEN InjectBodies
                  ELSE {JobData(Str("j1"), Str("python"), Obj("code")),
                        JobData(Absent, Str("python"), Obj("code"))})

\* the exception raised in do_POST before any state is written ("" when
\* none): rfile.read(cl).decode() ahead of the try block, then json.loads,
\* data.get, CapabilityType(...) inside it
BodyError(path, body) ==
  IF "json" \in DOMAIN body /\ body.json = "undecodable" THEN "UnicodeDecodeError"
  ELSE IF "json" \in DOMAIN body /\ body.json = "invalid" THEN "JSONDecodeError"
  ELSE IF ~IsDict(body) THEN "AttributeError"
  ELSE IF path = <<"inject">> /\ ~IsCapabilityType(body.type) THEN "ValueError"
  ELSE ""

\* the manifest /inject creates from the posted data
inject_manifest(data) ==
  create_manifest(data.id, CapabilityTypeOf(data.type), data.source, data.dependencies,
                  IF data.provides = <<>> THEN <<data.id>> ELSE data.provides,
                  TRUE, "", data.exports)

\* except Exception as e: send_response(400), before any write
Rejected(path, body) == BodyError(path, body) \notin {"", "UnicodeDecodeError"}

\* an exception outside the try block leaves do_POST: the server closes
\* the connection and sends no response
Dropped(path, body) == BodyError(path, body) = "UnicodeDecodeError"

\* do_GET: the status and the JSON sent
do_GET(reg, path) ==
  IF path[1] = "capability" /\ Len(path) > 1
  THEN IF get(reg, path[Len(path)]) # None
       THEN [status |-> "200", sent |-> to_dict(get(reg, path[Len(path)]))]
       ELSE [status |-> "404", sent |-> None]
  ELSE IF path = <<"health">> THEN [status |-> "200", sent |-> None]
  ELSE [status |-> "404", sent |-> None]

\* ---------------------------------------------------------------------
\* CapabilityFactory and the kernel's bootstrap
\* ---------------------------------------------------------------------

\* an activation list without its last capability
core_capsShort ==
  <<"core.config", "core.identity", "core.hardware", "network.mesh",
    "compute.container", "compute.python", "compute.blender">>

\* the order in which _bootstrap_capabilities activates
core_caps ==
  <<"core.config", "core.identity", "core.hardware", "network.mesh",
    "compute.container", "compute.python", "compute.blender", "quine.self">>

\* the registry and the loader of a kernel under construction
CoreRegistry ==
  [manifests |-> [i \in CoreIds |-> None],
   by_type   |-> [t \in CapabilityTypes |-> <<>>],
   provides  |-> [n \in CoreNames |-> NoId]]

\* makedirs is the machine's leave to create ~/.deedoop and its work
\* directory
CoreLoader(makedirs) ==
  [loaded |-> [i \in CoreIds |-> None],
   active |-> [i \in CoreIds |-> None],
   shared |-> IF makedirs
              THEN ("makedirs" :> [src |-> 0, sym |-> "makedirs"]) @@ ("HYDRA" :> HydraSelf)
              ELSE ("HYDRA" :> HydraSelf)]

\* loader.get_symbol(name)
get_symbol(L, name) == IF name \in DOMAIN L.shared THEN L.shared[name] ELSE None

\* the statements of HydraKernel.__init__ after the bootstrap: the
\* attribute set, the symbol fetched, whether it is called and the attribute
\* of self.config read for the call
KernelSteps ==
  << [set |-> "config",      symbol |-> "CONFIG",           call |-> FALSE, arg |-> ""],
     [set |-> "identity",    symbol |-> "IDENTITY_CLASS",   call |-> TRUE,  arg |-> "data_dir"],
     [set |-> "hw_probe",    symbol |-> "HARDWARE_PROBE",   call |-> FALSE, arg |-> ""],
     [set |-> "mesh",        symbol |-> "MESH_CLASS",       call |-> TRUE,  arg |-> ""],
     [set |-> "container",   symbol |-> "CONTAINER_CLASS",  call |-> TRUE,  arg |-> "work_dir"],
     [set |-> "python_exec", symbol |-> "PYTHON_EXECUTOR",  call |-> TRUE,  arg |-> "work_dir"],
     [set |-> "quine",       symbol |-> "QUINE_SELF_CLASS", call |-> TRUE,  arg |-> ""],
     [set |-> "jobs",        symbol |-> "",                 call |-> FALSE, arg |-> ""],
     [set |-> "http",        symbol |-> "",                 call |-> FALSE, arg |-> ""],
     [set |-> "worker",      symbol |-> "",                 call |-> FALSE, arg |-> ""] >>

\* the exception a statement of __init__ raises ("" when none): the
\* attribute of a None config, the call of a None class
StepError(L, step) ==
  IF step.arg # "" /\ get_symbol(L, "CONFIG") = None THEN "AttributeError"
  ELSE IF step.call /\ get_symbol(L, step.symbol) = None THEN "TypeError"
  ELSE ""

\* the kernel at the first statement of _bootstrap_capabilities
BootStart(makedirs, role) ==
  [pc |-> "register", i |-> 1, role |-> role, makedirs |-> makedirs,
   registry |-> CoreRegistry, loader |-> CoreLoader(makedirs),
   tried |-> <<>>, log |-> <<>>, set |-> <<>>, error |-> ""]

\* one statement of the construction: a register of the factory's list, an
\* activate of core_caps inside its try, a statement of __init__ after the
\* bootstrap, the banner
boot_step(b) ==
  IF b.pc = "register"
  THEN [b EXCEPT !.registry = register(@, create_core_capabilities[b.i]),
                 !.i = IF b.i = Len(create_core_capabilities) THEN 1 ELSE b.i + 1,
                 !.pc = IF b.i = Len(create_core_capabilities) THEN "activate" ELSE @]
  ELSE IF b.pc = "activate"
  THEN LET cap_id == core_caps[b.i]
           act == activate(b.loader, b.registry, cap_id)
       IN  [b EXCEPT !.loader = act.L,
                     !.tried = Append(@, cap_id),
                     !.log = IF act.error # ""
                             THEN Append(@, [id |-> cap_id, error |-> act.error])
                             ELSE @,
                     !.i = IF b.i = Len(core_caps) THEN 1 ELSE b.i + 1,
                     !.pc = IF b.i = Len(core_caps) THEN "init" ELSE @]
  ELSE IF b.pc = "init"
  THEN LET step == KernelSteps[b.i]
       IN  IF StepError(b.loader, step) # ""
           THEN [b EXCEPT !.pc = "crashed", !.error = StepError(b.loader, step)]
           ELSE [b EXCEPT !.set = Append(@, step.set),
                          !.i = IF b.i = Len(KernelSteps) THEN 1 ELSE b.i + 1,
                          !.pc = IF b.i < Len(KernelSteps) THEN @
                                 ELSE IF b.role = "SEED" THEN "banner" ELSE "started"]
  ELSE IF b.pc = "banner" THEN [b EXCEPT !.pc = "started"]
  ELSE b

\* the kernel constructed on a machine that lets it create its
\* directories: the constructor has returned (boot_step, taken from
\* BootStart(TRUE, role), ends at this pc)
Booted == [pc |-> "started"]

\* ---------------------------------------------------------------------
\* The loader's lock: load, activate and deactivate run "with self._lock"
\* ---------------------------------------------------------------------

\* the threads that call the loader
Threads == {"t1", "t2"}

\* a thread outside the loader
ThreadIdle == [pc |-> "idle", op |-> "", x |-> "", plan |-> <<>>, error |-> ""]

\* a thread inside "with self._lock" of op(x)
ThreadIn(pc, op, x, plan, error) ==
  [pc |-> pc, op |-> op, x |-> x, plan |-> plan, error |-> error]

\* the positions at which code of a capability runs: exec(source) and the
\* entry point, and __cleanup__
UserCode == {"exec", "cleanup"}

\* cleanup = cap.namespace.get('__cleanup__'); callable(cleanup)
HasCleanup(cap) ==
  "__cleanup__" \in DOMAIN cap.namespace /\ callable(cap.namespace["__cleanup__"])

\* ---------------------------------------------------------------------
\* v10: DistributedStore and the STORE_SYNC packets
\* A store value is data (a dict: a function from the keys held to their
\* values) and versions (a defaultdict(int): 0 for a key never written).
\* ---------------------------------------------------------------------
\* the keys written in a run
Keys == {"k"}

Values == {"x", "y"}

\* DistributedStore(data_dir) with no store.json
EmptyStore == [data |-> <<>>, versions |-> [k \in Keys |-> 0]]

\* a set that compares the version with > instead of >=
store_setStrict(s, key, value, version) ==
  IF version > s.versions[key]
  THEN [s EXCEPT !.data = (key :> value) @@ @, !.versions[key] = version]
  ELSE s

\* set(key, value, version) with a version given
store_set(s, key, value, version) ==
  IF version >= s.versions[key]
  THEN [s EXCEPT !.data = (key :> value) @@ @, !.versions[key] = version]
  ELSE s

\* set(key, value): version is None, so it is the stored version plus one
store_put(s, key, value) == store_set(s, key, value, s.versions[key] + 1)

\* delete(key)
store_delete(s, key) ==
  IF key \in DOMAIN s.data
  THEN [s EXCEPT !.data = [k \in (DOMAIN @) \ {key} |-> @[k]], !.versions[key] = @ + 1]
  ELSE s

\* export(): copies of both dicts
export(s) == [data |-> s.data, versions |-> s.versions]

\* the keys of a dict in the order a for loop visits them
RECURSIVE ItemsOf(_)
ItemsOf(S) == IF S = {} THEN <<>>
              ELSE LET k == CHOOSE k \in S : TRUE IN <<k>> \o ItemsOf(S \ {k})

\* op == 'STORE_SYNC': for key, value in incoming['data'].items():
\*     self.store.set(key, value, incoming['versions'].get(key, 0))
RECURSIVE store_sync(_, _, _)
store_sync(s, incoming, items) ==
  IF items = <<>> THEN s
  ELSE store_sync(store_set(s, Head(items), incoming.data[Head(items)],
                            incoming.versions[Head(items)]),
                  incoming, Tail(items))

\* the node that is not n
Other(n) == CHOOSE o \in NodeIds : o # n

\* no call of the store yet
NoCall == [op |-> "", n |-> "", version |-> 0]

\* ---------------------------------------------------------------------
\* State
\* ---------------------------------------------------------------------
VARIABLES
  manifests,         \* CapabilityRegistry._manifests
  by_type,           \* CapabilityRegistry._by_type
  provides,          \* CapabilityRegistry._provides
  loaded,            \* CapabilityLoader._loaded
  active,            \* CapabilityLoader._active
  shared_namespace,  \* CapabilityLoader._shared_namespace
  last,              \* the last call made and what it returned or raised
  swap,              \* the hot_swap call in progress in its own thread
  jobs,              \* HydraKernel.jobs: the job table, in insertion order
  heap,              \* the job dicts ever created, by object identity
  worker,            \* each worker thread's position in _worker_loop
  rt,                \* ContainerRuntime.rt: a container runtime was found
  peers,             \* MeshNetwork.peers
  now,               \* time.time(), in seconds
  hb,                \* the heartbeat thread
  listener,          \* the listener thread is running
  stream,            \* CapabilityStream: queue, subscribers, worker thread
  pair,              \* two nodes on one broadcast domain
  boot,              \* HydraKernel.__init__ in progress
  lock,              \* CapabilityLoader._lock and the threads calling the loader
  store              \* v10: the DistributedStore of two nodes, STORE_SYNC in flight

\* the capability registry and loader
capVars == <<manifests, by_type, provides, loaded, active, shared_namespace, swap>>

\* the job table, the workers and the mesh
nodeVars == <<jobs, heap, worker, rt, lock, store, peers, now, hb, listener, stream, pair,
             boot>>

vars == <<manifests, by_type, provides, loaded, active, shared_namespace, last, swap,
          jobs, heap, worker, rt, lock, store, peers, now, hb, listener, stream, pair, boot>>

registry == [manifests |-> manifests, by_type |-> by_type, provides |-> provides]

loader == [loaded |-> loaded, active |-> active, shared |-> shared_namespace]

SetRegistry(reg) ==
  /\ manifests' = reg.manifests
  /\ by_type' = reg.by_type
  /\ provides' = reg.provides

SetLoader(L) ==
  /\ loaded' = L.loaded
  /\ active' = L.active
  /\ shared_namespace' = L.shared

Call(op, name, manifest, ret, error, plan, log) ==
  [op |-> op, name |-> name, manifest |-> manifest, ret |-> ret,
   error |-> error, plan |-> plan, log |-> log, seen |-> {}]

\* no hot_swap in progress
SwapIdle == [pc |-> "idle", manifest |-> None, old_cap |-> None]

\* CapabilityStream() after the loader has subscribed: the worker thread
\* at the top of its loop. published and calls are the history of publish
\* calls and of subscriber calls, subscribed the number of manifests taken
\* from the queue when each subscriber was added, stopped that number
\* when stop() returned (-1 before).
StreamStart ==
  [running |-> TRUE, queue |-> <<>>, subscribers |-> <<"loader">>,
   pc |-> "top", item |-> None, k |-> 0, published |-> <<>>, calls |-> <<>>,
   subscribed |-> <<0>>, stopped |-> -1]

\* a node of the pair that has not been started
PairDown == [up |-> FALSE]

\* a node of the pair when it is started: its swarm key, the time it was
\* started, the time of its next heartbeat turn, its peers, its registry
\* and the manifests put on its stream
PairStarted(key, t) ==
  [up |-> TRUE, key |-> key, since |-> t, due |-> t,
   peers |-> [n \in NodeIds |-> None], registry |-> EmptyRegistry, queue |-> <<>>]

\* the loader's lock free, every thread outside the loader
LockFree == [owner |-> "", th |-> [t \in Threads |-> ThreadIdle]]

\* v10: both nodes with an empty store.json, nothing in flight.  merged
\* is the set of nodes that have merged an export the other node sent
\* after the last write to either store
StoreStart ==
  [node |-> [n \in NodeIds |-> EmptyStore], wire |-> {}, merged |-> {}, call |-> NoCall]

\* the heartbeat thread about to run its loop body at time due
HeartbeatStart == [alive |-> TRUE, due |-> 0]

\* the node after construction, on a machine with or without a container
\* runtime
Start(runtime) ==
  /\ manifests = EmptyRegistry.manifests
  /\ by_type = EmptyRegistry.by_type
  /\ provides = EmptyRegistry.provides
  /\ loaded = EmptyLoader.loaded
  /\ active = EmptyLoader.active
  /\ shared_namespace = EmptyLoader.shared
  /\ last = Call("init", "", None, "", "", <<>>, <<>>)
  /\ swap = SwapIdle
  /\ jobs = <<>>
  /\ heap = <<>>
  /\ worker = [w \in Workers |-> WorkerIdle]
  /\ rt = runtime
  /\ peers = [n \in NodeIds |-> None]
  /\ now = 0
  /\ hb = HeartbeatStart
  /\ listener = TRUE
  /\ stream = StreamStart
  /\ pair = [n \in NodeIds |-> PairDown]
  /\ boot = Booted
  /\ lock = LockFree
  /\ store = StoreStart

\* the node at the first statement of the kernel's bootstrap
StartBoot(runtime, makedirs, role) ==
  /\ manifests = EmptyRegistry.manifests
  /\ by_type = EmptyRegistry.by_type
  /\ provides = EmptyRegistry.provides
  /\ loaded = EmptyLoader.loaded
  /\ active = EmptyLoader.active
  /\ shared_namespace = EmptyLoader.shared
  /\ last = Call("init", "", None, "", "", <<>>, <<>>)
  /\ swap = SwapIdle
  /\ jobs = <<>>
  /\ heap = <<>>
  /\ worker = [w \in Workers |-> WorkerIdle]
  /\ rt = runtime
  /\ peers = [n \in NodeIds |-> None]
  /\ now = 0
  /\ hb = HeartbeatStart
  /\ listener = TRUE
  /\ stream = StreamStart
  /\ pair = [n \in NodeIds |-> PairDown]
  /\ boot = BootStart(makedirs, role)
  /\ lock = LockFree
  /\ store = StoreStart

Init == Start(FALSE)

\* the number of registrations that changed the registry so far
Registrations == Len(by_type["core"]) + Len(by_type["plugin"])

CanRegister(m) == RegisterIsNoop(registry, m) \/ Registrations < MaxRegs

\* ---------------------------------------------------------------------
\* Operations (each one call of a public method by the kernel, the CLI or
\* the HTTP face)
\* ---------------------------------------------------------------------
Register(m) ==
  /\ CanRegister(m)
  /\ SetRegistry(register(registry, m))
  /\ last' = Call("register", m.id, m,
                  IF registerReturns(registry, m) THEN "True" ELSE "False",
                  "", <<>>, <<>>)
  /\ UNCHANGED <<loaded, active, shared_namespace, swap>>
  /\ UNCHANGED nodeVars

Resolve(x) ==
  LET r == resolve(registry, x)
  IN  /\ last' = Call("resolve", x, None, "", r.error, r.result, <<>>)
      /\ UNCHANGED <<manifests, by_type, provides, loaded, active, shared_namespace, swap>>
      /\ UNCHANGED nodeVars

Load(x) ==
  LET r == load(loader, registry, x)
  IN  /\ SetLoader(r.L)
      /\ last' = Call("load", x, None, "", r.error, <<>>, <<>>)
      /\ UNCHANGED <<manifests, by_type, provides, swap>>
      /\ UNCHANGED nodeVars

Activate(x) ==
  LET r == activate(loader, registry, x)
  IN  /\ SetLoader(r.L)
      /\ last' = Call("activate", x, None, "", r.error, <<>>, r.log)
      /\ UNCHANGED <<manifests, by_type, provides, swap>>
      /\ UNCHANGED nodeVars

Deactivate(x) ==
  /\ SetLoader(deactivate(loader, x))
  /\ last' = Call("deactivate", x, None, "", "",  <<>>,
                  IF InActive(loader, x) THEN <<Event("deactivate", x)>> ELSE <<>>)
  /\ UNCHANGED <<manifests, by_type, provides, swap>>
  /\ UNCHANGED nodeVars

HotSwap(m) ==
  LET r == hot_swap(loader, registry, m)
  IN  /\ HotSwapRefused(loader, m) \/ CanRegister(m)
      /\ SetLoader(r.L)
      /\ SetRegistry(r.reg)
      /\ last' = Call("hot_swap", m.id, m, r.ret, r.error, <<>>, r.log)
      /\ UNCHANGED swap
      /\ UNCHANGED nodeVars

Next ==
  \/ \E m \in Manifests : Register(m)
  \/ \E x \in Names : Load(x)
  \/ \E x \in Names : Activate(x)
  \/ \E x \in Names : Deactivate(x)
  \/ \E m \in Manifests : HotSwap(m)

Spec == Init /\ [][Next]_vars

\* ---------------------------------------------------------------------
\* hot_swap in a thread of its own, statement by statement: the loader
\* lock is taken inside deactivate and inside activate only, the registry
\* lock inside register only, so other threads run between the statements.
\* ---------------------------------------------------------------------

\* old_cap = self._active.get(new_manifest.id), and the refusal
SwapBegin(m) ==
  /\ swap.pc = "idle"
  /\ HotSwapRefused(loader, m) \/ CanRegister(m)
  /\ IF HotSwapRefused(loader, m)
     THEN /\ last' = Call("hot_swap", m.id, m, "False", "", <<>>, <<>>)
          /\ UNCHANGED swap
     ELSE /\ swap' = [pc |-> IF InActive(loader, m.id) THEN "deactivate" ELSE "register",
                      manifest |-> m, old_cap |-> active[m.id]]
          /\ UNCHANGED last
  /\ UNCHANGED <<manifests, by_type, provides, loaded, active, shared_namespace>>
  /\ UNCHANGED nodeVars

\* self.deactivate(new_manifest.id)
SwapDeactivate ==
  /\ swap.pc = "deactivate"
  /\ SetLoader(deactivate(loader, swap.manifest.id))
  /\ swap' = [swap EXCEPT !.pc = "drop"]
  /\ UNCHANGED <<manifests, by_type, provides, last>>
  /\ UNCHANGED nodeVars

\* del self._loaded[new_manifest.id]: a KeyError when the key is gone
SwapDrop ==
  /\ swap.pc = "drop"
  /\ IF loaded[swap.manifest.id] = None
     THEN /\ last' = Call("hot_swap", swap.manifest.id, swap.manifest, "", "KeyError",
                          <<>>, <<>>)
          /\ swap' = SwapIdle
          /\ UNCHANGED loaded
     ELSE /\ loaded' = [loaded EXCEPT ![swap.manifest.id] = None]
          /\ swap' = [swap EXCEPT !.pc = "register"]
          /\ UNCHANGED last
  /\ UNCHANGED <<manifests, by_type, provides, active, shared_namespace>>
  /\ UNCHANGED nodeVars

\* self.registry.register(new_manifest)
SwapRegister ==
  /\ swap.pc = "register"
  /\ SetRegistry(register(registry, swap.manifest))
  /\ swap' = [swap EXCEPT !.pc = "activate"]
  /\ UNCHANGED <<loaded, active, shared_namespace, last>>
  /\ UNCHANGED nodeVars

\* self.activate(new_manifest.id); return True
SwapActivate ==
  LET r == activate(loader, registry, swap.manifest.id)
  IN  /\ swap.pc = "activate"
      /\ SetLoader(r.L)
      /\ last' = Call("hot_swap", swap.manifest.id, swap.manifest,
                      IF r.error = "" THEN "True" ELSE "", r.error, <<>>, r.log)
      /\ swap' = SwapIdle
      /\ UNCHANGED <<manifests, by_type, provides>>
      /\ UNCHANGED nodeVars

\* list_active() in another thread (GET /cluster, the CLI): reads _active
\* without taking the loader lock
ListActive ==
  /\ last' = [Call("list_active", "", None, "", "", <<>>, <<>>)
                EXCEPT !.seen = {i \in Ids : active[i] # None}]
  /\ UNCHANGED <<manifests, by_type, provides, loaded, active, shared_namespace, swap>>
  /\ UNCHANGED nodeVars

\* One thread in hot_swap; other threads calling activate and list_active.
NextSwap ==
  \/ \E m \in Manifests : SwapBegin(m)
  \/ SwapDeactivate
  \/ SwapDrop
  \/ SwapRegister
  \/ SwapActivate
  \/ \E x \in Names : Activate(x)
  \/ ListActive

SpecSwap == Init /\ [][NextSwap]_vars

\* The registry and the resolver alone: register and resolve calls.
NextResolve ==
  \/ \E m \in Manifests : Register(m)
  \/ \E x \in Names : Resolve(x)

SpecResolve == Init /\ [][NextResolve]_vars

\* ---------------------------------------------------------------------
\* The job table: submissions and the worker loop. The worker takes
\* jobs_lock for the claim, for the write after the executor call and for
\* the write of the except branch, and holds no lock in between.
\* ---------------------------------------------------------------------

InitJobs == \E runtime \in BOOLEAN : Start(runtime)

CanSubmit == Len(heap) < MaxSubmits

\* kernel._queue_job(data)
QueueJob(job_data) ==
  LET q == queue_job(jobs, heap, job_data)
  IN  /\ jobs' = q.jobs
      /\ heap' = q.heap

\* POST /submit
HttpSubmit(job_data) ==
  /\ CanSubmit
  /\ QueueJob(job_data)
  /\ UNCHANGED <<capVars, last, worker, rt, lock, store, peers, now, hb, listener, stream, pair, boot>>

\* the CLI's run <type> <spec>
CliRun(jtype) ==
  /\ CanSubmit
  /\ QueueJob(JobData(uuid4(Len(heap) + 1), Str(jtype),
                      IF jtype = "python" THEN Obj("code") ELSE Obj("image")))
  /\ UNCHANGED <<capVars, last, worker, rt, lock, store, peers, now, hb, listener, stream, pair, boot>>

\* the claim at the top of the loop
WorkerClaim(w) ==
  LET obj == FirstPending(jobs, heap)
  IN  /\ worker[w].pc = "idle"
      /\ obj # 0
      /\ heap' = claim(heap, obj)
      /\ worker' = [worker EXCEPT ![w] = [WorkerIdle EXCEPT !.pc = "claimed", !.job = obj]]
      /\ UNCHANGED <<capVars, last, jobs, rt, lock, store, peers, now, hb, listener, stream, pair, boot>>

\* the executor a claimed job reaches, and whether its child process ran
Reached(runtime, job, e) ==
  LET ex == IF job.spec.json = "object" THEN ExecutorOf(job.type) ELSE ""
      child == /\ ex # ""
               /\ job.id.json = "string"
               /\ e # "makedirs"
               /\ IF ex = "python" THEN job.spec.v = "code" ELSE runtime
  IN  [ran |-> ex, outcome |-> IF child THEN e ELSE ""]

\* the dispatch and the executor call, outside the lock
WorkerExecute(w, e) ==
  LET job == heap[worker[w].job]
      r == dispatch(rt, job, e)
      g == Reached(rt, job, e)
  IN  /\ worker[w].pc = "claimed"
      /\ worker' = [worker EXCEPT ![w] =
                      [pc |-> IF r.raised THEN "raised" ELSE "returned",
                       job |-> worker[w].job, ran |-> g.ran,
                       outcome |-> g.outcome, result |-> r]]
      /\ UNCHANGED <<capVars, last, jobs, heap, rt, lock, store, peers, now, hb, listener, stream, pair, boot>>

\* the write of status, exit_code and error under the lock, then the
\* print of job['id'][:8], which raises on an id that is not a string
WorkerRecord(w) ==
  /\ worker[w].pc = "returned"
  /\ heap' = record(heap, worker[w].job, worker[w].result)
  /\ worker' = [worker EXCEPT ![w] =
                  IF heap[worker[w].job].id.json = "string"
                  THEN WorkerIdle
                  ELSE [@ EXCEPT !.pc = "raised", !.result = Raise("TypeError", SubscriptTypeErrorText)]]
  /\ UNCHANGED <<capVars, last, jobs, rt, lock, store, peers, now, hb, listener, stream, pair, boot>>

\* the except branch, then the sleep
WorkerExcept(w) ==
  /\ worker[w].pc = "raised"
  /\ heap' = except(heap, worker[w].job, worker[w].result.err)
  /\ worker' = [worker EXCEPT ![w] = WorkerIdle]
  /\ UNCHANGED <<capVars, last, jobs, rt, lock, store, peers, now, hb, listener, stream, pair, boot>>

WorkerStep(w) ==
  \/ WorkerClaim(w)
  \/ \E e \in Outcomes : WorkerExecute(w, e)
  \/ WorkerRecord(w)
  \/ WorkerExcept(w)

\* ---------------------------------------------------------------------
\* The mesh threads
\* ---------------------------------------------------------------------

\* the exception an opcode handler raises on a packet ("" when none)
HandlerError(pkt) ==
  IF pkt.op = "JOB_SUBMIT" /\ pkt.job # Absent /\ ~IsDict(pkt.job)
  THEN "AttributeError"
  ELSE IF pkt.op = "CAPABILITY_RESPONSE" /\ pkt.manifest # None /\ FromDictRaises(pkt.manifest)
  THEN "ValueError"
  ELSE ""

\* a handler that never answers
RepliesNever(reg, pkt) == <<>>

\* the broadcasts an opcode handler makes
Replies(reg, pkt) ==
  IF pkt.op = "CAPABILITY_REQUEST" /\ get(reg, pkt.id) # None
  THEN <<Packet(node_id, "CAPABILITY_RESPONSE", Absent, to_dict(get(reg, pkt.id)))>>
  ELSE <<>>

\* _on_mesh_packet(pkt, addr)
OnMeshPacket(pkt) ==
  IF pkt.op = "CAPABILITY_ANNOUNCE" /\ ~FromDictRaises(pkt.manifest)
  THEN /\ SetRegistry(register(registry, from_dict(pkt.manifest)))
       /\ UNCHANGED <<jobs, heap, stream>>
  ELSE IF pkt.op = "CAPABILITY_RESPONSE" /\ pkt.manifest # None /\ ~FromDictRaises(pkt.manifest)
  THEN /\ stream' = publish(stream, from_dict(pkt.manifest))
       /\ UNCHANGED <<manifests, by_type, provides, jobs, heap>>
  ELSE IF pkt.op = "JOB_SUBMIT" /\ pkt.job # Absent /\ IsDict(pkt.job)
  THEN /\ QueueJob(pkt.job)
       /\ UNCHANGED <<manifests, by_type, provides, stream>>
  ELSE UNCHANGED <<manifests, by_type, provides, jobs, heap, stream>>

\* a listener loop with no try around its body
AbsorbedNever(error) == error = ""

\* except Exception: pass, around the whole body of the loop
Absorbed(error) == TRUE

CanPublish == Len(stream.published) < MaxPublish

\* one turn of the listener loop on a datagram received
Listen(data) ==
  LET pkt == decrypt(data)
  IN  /\ listener
      /\ IsEnvelope(data.pkt) =>
           /\ data.pkt.op = "JOB_SUBMIT" => CanSubmit
           /\ (data.pkt.op = "CAPABILITY_ANNOUNCE" /\ ~FromDictRaises(data.pkt.manifest))
                => CanRegister(from_dict(data.pkt.manifest))
           /\ data.pkt.op = "CAPABILITY_RESPONSE" => CanPublish
      /\ IF pkt # None /\ ~IsEnvelope(pkt)
         THEN /\ last' = Call("_listen", "", None, "ignored", "AttributeError", <<>>, <<>>)
              /\ listener' = Absorbed("AttributeError")
              /\ UNCHANGED <<manifests, by_type, provides, jobs, heap, peers, stream>>
         ELSE IF Ignored(pkt)
         THEN /\ last' = Call("_listen", IF pkt = None THEN "" ELSE pkt.src, None,
                              "ignored", "", <<>>, <<>>)
              /\ UNCHANGED <<manifests, by_type, provides, jobs, heap, peers, stream,
                             listener>>
         ELSE /\ peers' = [peers EXCEPT ![pkt.src] = [seen |-> now]]
              /\ OnMeshPacket(pkt)
              /\ last' = Call("_listen", pkt.src, None, pkt.op, HandlerError(pkt), <<>>,
                              Replies(registry, pkt))
              /\ listener' = Absorbed(HandlerError(pkt))
      /\ UNCHANGED <<loaded, active, shared_namespace, swap, worker, rt, lock, store, now, hb, pair, boot>>

\* one turn of the heartbeat loop: the PING broadcast, whose sendto
\* raises or not, the cleanup of stale peers, the sleep
Heartbeat(sent) ==
  /\ hb.alive
  /\ hb.due = now
  /\ IF sent
     THEN /\ peers' = cleanup(peers, now)
          /\ hb' = [alive |-> TRUE, due |-> now + heartbeat]
     ELSE /\ hb' = [hb EXCEPT !.alive = FALSE]
          /\ UNCHANGED peers
  /\ UNCHANGED <<capVars, last, jobs, heap, worker, rt, lock, store, now, listener, stream, pair, boot>>

\* a second passes; a heartbeat turn that is due runs first
Tick ==
  /\ now < MaxTime
  /\ hb.alive => now < hb.due
  /\ now' = now + 1
  /\ UNCHANGED <<capVars, last, jobs, heap, worker, rt, lock, store, peers, hb, listener, stream, pair, boot>>

\* CapabilityStream._process_stream: the test of the while loop
StreamLoop ==
  /\ stream.pc = "top"
  /\ stream' = [stream EXCEPT !.pc = IF stream.running THEN "get" ELSE "done"]
  /\ UNCHANGED <<capVars, last, jobs, heap, worker, rt, lock, store, peers, now, hb, listener, pair, boot>>

\* self._queue.get(timeout=1): a manifest taken, or queue.Empty after a
\* second
StreamGet ==
  /\ stream.pc = "get"
  /\ stream' = IF stream.queue # <<>>
               THEN [stream EXCEPT !.pc = "deliver", !.item = Head(stream.queue),
                                   !.queue = Tail(stream.queue), !.k = 1]
               ELSE [stream EXCEPT !.pc = "top"]
  /\ UNCHANGED <<capVars, last, jobs, heap, worker, rt, lock, store, peers, now, hb, listener, pair, boot>>

\* one turn of the for loop over the subscribers, under the lock: the
\* loader's _on_capability_received registers the manifest
StreamCall ==
  /\ stream.pc = "deliver"
  /\ IF stream.k <= Len(stream.subscribers)
     THEN LET callback == stream.subscribers[stream.k]
              raised == SubscriberRaises(callback, stream.item)
          IN  /\ stream' = [stream EXCEPT
                              !.calls = Append(@, [s |-> stream.k, cb |-> callback,
                                                   n |-> Taken(stream),
                                                   manifest |-> stream.item,
                                                   raised |-> raised]),
                              !.k = callNext(stream, raised)]
              /\ IF callback = "loader"
                 THEN SetRegistry(register(registry, stream.item))
                 ELSE UNCHANGED <<manifests, by_type, provides>>
     ELSE /\ stream' = [stream EXCEPT !.pc = "top", !.item = None, !.k = 0]
          /\ UNCHANGED <<manifests, by_type, provides>>
  /\ UNCHANGED <<loaded, active, shared_namespace, swap, last, jobs, heap, worker, rt, lock, store,
                 peers, now, hb, listener, pair, boot>>

StreamStep == StreamLoop \/ StreamGet \/ StreamCall

\* stream.subscribe(callback): waits for the lock while the worker
\* delivers
Subscribe(callback) ==
  /\ callback \notin Range(stream.subscribers)
  /\ stream.pc # "deliver"
  /\ stream' = subscribe(stream, callback)
  /\ UNCHANGED <<capVars, last, jobs, heap, worker, rt, lock, store, peers, now, hb, listener, pair, boot>>

\* stream.stop()
Stop ==
  /\ stream.running
  /\ stream' = stop(stream)
  /\ UNCHANGED <<capVars, last, jobs, heap, worker, rt, lock, store, peers, now, hb, listener, pair, boot>>

\* do_POST: /inject registers, publishes and announces the manifest
\* created from the body, /submit queues the job; the response is kept in
\* last (ret the status, error the text sent, log the broadcasts)
HttpPost(path, body) ==
  /\ (path = <<"submit">> /\ BodyError(path, body) = "") => CanSubmit
  /\ (path = <<"inject">> /\ BodyError(path, body) = "") =>
        CanPublish /\ CanRegister(inject_manifest(body))
  /\ IF path \notin {<<"inject">>, <<"submit">>}
     THEN /\ last' = Call("do_POST", PathText(path), None, "404", "", <<>>, <<>>)
          /\ UNCHANGED <<manifests, by_type, provides, stream, jobs, heap>>
     ELSE IF Dropped(path, body)
     THEN /\ last' = Call("do_POST", PathText(path), None, "", BodyError(path, body),
                          <<>>, <<>>)
          /\ UNCHANGED <<manifests, by_type, provides, stream, jobs, heap>>
     ELSE IF Rejected(path, body)
     THEN /\ last' = Call("do_POST", PathText(path), None, "400", BodyError(path, body),
                          <<>>, <<>>)
          /\ UNCHANGED <<manifests, by_type, provides, stream, jobs, heap>>
     ELSE IF path = <<"inject">>
     THEN LET manifest == inject_manifest(body)
          IN  /\ SetRegistry(register(registry, manifest))
              /\ stream' = publish(stream, manifest)
              /\ last' = Call("do_POST", PathText(path), manifest, "200", "", <<>>,
                              <<Packet(node_id, "CAPABILITY_ANNOUNCE", Absent,
                                       to_dict(manifest))>>)
              /\ UNCHANGED <<jobs, heap>>
     ELSE /\ QueueJob(body)
          /\ last' = Call("do_POST", PathText(path), None, "200", "", <<>>, <<>>)
          /\ UNCHANGED <<manifests, by_type, provides, stream>>
  /\ UNCHANGED <<loaded, active, shared_namespace, swap, worker, rt, lock, store, peers, now, hb,
                 listener, pair, boot>>

\* do_GET: the response is kept in last (ret the status, manifest the
\* JSON sent)
HttpGet(path) ==
  /\ last' = Call("do_GET", PathText(path), do_GET(registry, path).sent,
                  do_GET(registry, path).status, "", <<>>, <<>>)
  /\ UNCHANGED <<capVars, nodeVars>>

\* ---------------------------------------------------------------------
\* Two nodes on one broadcast domain that delivers every datagram
\* ---------------------------------------------------------------------

\* the swarm keys a node is started with
SwarmKeys == {"skey", "other"}

\* the bodies posted to /inject of a node of the pair
PairBodies ==
  { InjectBody("c", Str("plugin"), 3, <<>>, <<>>, <<"Y">>),
    InjectBody("c", Str("plugin"), 1, <<>>, <<>>, <<"X">>) }

\* the number of registrations a registry has stored
Stored(reg) == Len(reg.by_type["core"]) + Len(reg.by_type["plugin"])

\* one turn of the listener of node id on a datagram, at time t: the
\* peers entry, then the CAPABILITY_ANNOUNCE handler
PairReceive(nd, id, data, t) ==
  LET pkt == IF nd.up /\ data.key = nd.key THEN data.pkt ELSE None
  IN  IF pkt = None \/ pkt.src = id THEN nd
      ELSE [nd EXCEPT
              !.peers[pkt.src] = [seen |-> t],
              !.registry = IF pkt.op = "CAPABILITY_ANNOUNCE" /\ ~FromDictRaises(pkt.manifest)
                           THEN register(@, from_dict(pkt.manifest))
                           ELSE @]

\* mesh.broadcast of node n: every node on the domain receives the
\* datagram encrypted under n's key
PairBroadcast(p, n, pkt, t) ==
  [m \in NodeIds |-> PairReceive(p[m], m, [key |-> p[n].key, pkt |-> pkt], t)]

\* a node is started: MeshNetwork binds its socket and starts the listener
\* and the heartbeat
PairUp(n, key) ==
  /\ ~pair[n].up
  /\ now <= MaxStart
  /\ pair' = [pair EXCEPT ![n] = PairStarted(key, now)]
  /\ last' = Call("start", n, None, key, "", <<>>, <<>>)
  /\ UNCHANGED <<capVars, jobs, heap, worker, rt, lock, store, peers, now, hb, listener, stream, boot>>

\* one turn of the heartbeat loop of node n: PING, cleanup, sleep
PairHeartbeat(n) ==
  /\ pair[n].up
  /\ pair[n].due = now
  /\ pair' = [PairBroadcast(pair, n, Packet(n, "PING", Absent, None), now) EXCEPT
                ![n].peers = cleanup(@, now),
                ![n].due = now + heartbeat]
  /\ last' = Call("_heartbeat", n, None, "", "", <<>>, <<>>)
  /\ UNCHANGED <<capVars, jobs, heap, worker, rt, lock, store, peers, now, hb, listener, stream, boot>>

\* node n accepts a POST /inject: register, publish, CAPABILITY_ANNOUNCE
PairInject(n, body) ==
  /\ pair[n].up
  /\ BodyError(<<"inject">>, body) = ""
  /\ Stored(pair[n].registry) < MaxRegs
  /\ Len(pair[n].queue) < MaxPublish
  /\ LET manifest == inject_manifest(body)
     IN  /\ pair' = PairBroadcast(
                      [pair EXCEPT ![n].registry = register(@, manifest),
                                   ![n].queue = Append(@, manifest)],
                      n, Packet(n, "CAPABILITY_ANNOUNCE", Absent, to_dict(manifest)), now)
         /\ last' = Call("do_POST", n, manifest, "200", "", <<>>, <<>>)
  /\ UNCHANGED <<capVars, jobs, heap, worker, rt, lock, store, peers, now, hb, listener, stream, boot>>

\* a second passes; the heartbeat turns that are due run first
PairTick ==
  /\ now < MaxTime
  /\ \A n \in NodeIds : pair[n].up => now < pair[n].due
  /\ now' = now + 1
  /\ UNCHANGED <<capVars, last, jobs, heap, worker, rt, lock, store, peers, hb, listener, stream,
                 pair, boot>>

\* _bootstrap_capabilities: self.registry.register(manifest) for the
\* next manifest of the factory's list
BootRegister ==
  /\ boot.pc = "register"
  /\ boot' = boot_step(boot)
  /\ UNCHANGED <<capVars, last, jobs, heap, worker, rt, lock, store, peers, now, hb, listener, stream, pair>>

\* _bootstrap_capabilities: the try around self.loader.activate(cap_id)
\* for the next id of core_caps
BootActivate ==
  /\ boot.pc = "activate"
  /\ boot' = boot_step(boot)
  /\ UNCHANGED <<capVars, last, jobs, heap, worker, rt, lock, store, peers, now, hb, listener, stream, pair>>

\* the next statement of __init__ after the bootstrap
BootInit ==
  /\ boot.pc = "init"
  /\ boot' = boot_step(boot)
  /\ UNCHANGED <<capVars, last, jobs, heap, worker, rt, lock, store, peers, now, hb, listener, stream, pair>>

\* if role == "SEED": self._print_banner()
BootBanner ==
  /\ boot.pc = "banner"
  /\ boot' = boot_step(boot)
  /\ UNCHANGED <<capVars, last, jobs, heap, worker, rt, lock, store, peers, now, hb, listener, stream, pair>>

\* the one worker thread the kernel starts
TheWorker == "w1"

\* Submissions over HTTP, the CLI and the mesh, and the kernel's worker.
NextJobs ==
  \/ \E d \in Submissions : HttpSubmit(d)
  \/ \E t \in JobTypes : CliRun(t)
  \/ \E d \in JobDatagrams : Listen(d)
  \/ WorkerClaim(TheWorker)
  \/ \E e \in Outcomes : WorkerExecute(TheWorker, e)
  \/ WorkerRecord(TheWorker)
  \/ WorkerExcept(TheWorker)

SpecJobs == InitJobs /\ [][NextJobs]_vars

\* The worker is a daemon thread that loops for ever: it is scheduled
\* again and again, and every executor call returns or raises.
SpecJobsFair == SpecJobs /\ WF_vars(WorkerStep(TheWorker))

\* Several threads running _worker_loop on one job table.
NextWorkers ==
  \/ \E d \in Submissions : HttpSubmit(d)
  \/ \E w \in Workers : WorkerClaim(w)
  \/ \E w \in Workers : \E e \in Outcomes : WorkerExecute(w, e)
  \/ \E w \in Workers : WorkerRecord(w)
  \/ \E w \in Workers : WorkerExcept(w)

SpecWorkers == InitJobs /\ [][NextWorkers]_vars

\* The listener, the heartbeat and the clock.
NextMesh ==
  \/ \E d \in Datagrams : Listen(d)
  \/ \E sent \in BOOLEAN : Heartbeat(sent)
  \/ Tick

SpecMesh == Init /\ [][NextMesh]_vars

\* The listener on sound and unsound datagrams and the HTTP face.
NextWire ==
  \/ \E d \in WireDatagrams : Listen(d)
  \/ \E path \in PostPaths : \E body \in BodiesOf(path) : HttpPost(path, body)
  \/ \E path \in GetPaths : HttpGet(path)

SpecWire == Init /\ [][NextWire]_vars

\* The construction of the kernel, on a machine with or without a
\* container runtime and with or without leave to create its directories,
\* as seed or as worker.
InitBoot ==
  \E runtime \in BOOLEAN : \E makedirs \in BOOLEAN : \E role \in {"SEED", "WORKER"} :
     StartBoot(runtime, makedirs, role)

NextBoot == BootRegister \/ BootActivate \/ BootInit \/ BootBanner

SpecBoot == InitBoot /\ [][NextBoot]_vars

\* Two nodes, their heartbeats and the clock.
NextPair ==
  \/ \E n \in NodeIds : \E key \in SwarmKeys : PairUp(n, key)
  \/ \E n \in NodeIds : PairHeartbeat(n)
  \/ PairTick

SpecPair == Init /\ [][NextPair]_vars

\* Two nodes, their first heartbeats and their injections.
NextAnnounce ==
  \/ \E n \in NodeIds : \E key \in SwarmKeys : PairUp(n, key)
  \/ \E n \in NodeIds : PairHeartbeat(n)
  \/ \E n \in NodeIds : \E body \in PairBodies : PairInject(n, body)

SpecAnnounce == Init /\ [][NextAnnounce]_vars

\* the CAPABILITY_RESPONSE and CAPABILITY_REQUEST datagrams of the other
\* node
StreamDatagrams ==
  {[key |-> "skey", pkt |-> Packet("n2", "CAPABILITY_RESPONSE", Absent, to_dict(m))] :
     m \in StreamManifests}
    \cup {[key |-> "skey", pkt |-> Request("n2", m.id)] : m \in StreamManifests}

\* The stream with its publisher, its subscribers and its worker.
NextStream ==
  \/ \E d \in StreamDatagrams : Listen(d)
  \/ \E callback \in Callbacks : Subscribe(callback)
  \/ Stop
  \/ StreamLoop
  \/ StreamGet
  \/ StreamCall

SpecStream == Init /\ [][NextStream]_vars

\* The stream worker is a daemon thread: it is scheduled again and again,
\* and get(timeout=1) returns or times out.
SpecStreamFair == SpecStream /\ WF_vars(StreamStep)


\* ---------------------------------------------------------------------
\* The loader called from two threads, statement by statement.  A thread
\* enters "with self._lock" only when no other thread is inside; what it
\* does inside is activate's and deactivate's own code.
\* ---------------------------------------------------------------------
Enter(t, th) == lock' = [lock EXCEPT !.owner = t, !.th[t] = th]

Move(t, th) == lock' = [lock EXCEPT !.th[t] = th]

\* activate(x) up to the for loop: the early return and resolve
LockActivate(t, x) ==
  /\ lock.th[t].pc = "idle"
  /\ lock.owner = ""
  /\ IF InActive(loader, x)
     THEN Enter(t, ThreadIn("release", "activate", x, <<>>, ""))
     ELSE LET r == resolve(registry, x)
          IN  IF r.error # ""
              THEN Enter(t, ThreadIn("release", "activate", x, <<>>, r.error))
              ELSE Enter(t, ThreadIn("load", "activate", x, r.result, ""))
  /\ UNCHANGED <<capVars, last, jobs, heap, worker, rt, store, peers, now, hb, listener,
                 stream, pair, boot>>

\* one turn of the for loop up to exec: the test of _active, load(dep_id);
\* after the loop, return self._active[capability_id]
LockLoad(t) ==
  LET th == lock.th[t]
  IN  /\ th.pc = "load"
      /\ IF th.plan = <<>>
         THEN /\ Move(t, [th EXCEPT !.pc = "release",
                                    !.error = IF InActive(loader, th.x) THEN ""
                                              ELSE "KeyError"])
              /\ UNCHANGED <<loaded, active, shared_namespace>>
         ELSE IF InActive(loader, Head(th.plan))
         THEN /\ Move(t, [th EXCEPT !.plan = Tail(@)])
              /\ UNCHANGED <<loaded, active, shared_namespace>>
         ELSE LET ld == load(loader, registry, Head(th.plan))
              IN  /\ SetLoader(ld.L)
                  /\ IF ld.error # ""
                     THEN Move(t, [th EXCEPT !.pc = "release", !.error = ld.error])
                     ELSE Move(t, [th EXCEPT !.pc = "exec"])
      /\ UNCHANGED <<manifests, by_type, provides, swap, last, jobs, heap, worker, rt, store,
                     peers, now, hb, listener, stream, pair, boot>>

\* _activate_single returns or raises: the source and the entry point of
\* the capability have run
LockExec(t) ==
  LET th == lock.th[t]
      act == activate_single(loader, Head(th.plan))
  IN  /\ th.pc = "exec"
      /\ SetLoader(act.L)
      /\ IF act.error # ""
         THEN Move(t, [th EXCEPT !.pc = "release", !.error = act.error])
         ELSE Move(t, [th EXCEPT !.pc = "load", !.plan = Tail(@)])
      /\ UNCHANGED <<manifests, by_type, provides, swap, last, jobs, heap, worker, rt, store,
                     peers, now, hb, listener, stream, pair, boot>>

\* deactivate(x) up to the call of __cleanup__
LockDeactivate(t, x) ==
  /\ lock.th[t].pc = "idle"
  /\ lock.owner = ""
  /\ IF InActive(loader, x) /\ HasCleanup(active[x])
     THEN /\ Enter(t, ThreadIn("cleanup", "deactivate", x, <<>>, ""))
          /\ UNCHANGED <<loaded, active, shared_namespace>>
     ELSE /\ Enter(t, ThreadIn("release", "deactivate", x, <<>>, ""))
          /\ SetLoader(deactivate(loader, x))
  /\ UNCHANGED <<manifests, by_type, provides, swap, last, jobs, heap, worker, rt, store,
                 peers, now, hb, listener, stream, pair, boot>>

\* __cleanup__ returns or raises; the state is set and the id deleted
LockCleanup(t) ==
  LET th == lock.th[t]
  IN  /\ th.pc = "cleanup"
      /\ SetLoader(deactivate(loader, th.x))
      /\ Move(t, [th EXCEPT !.pc = "release"])
      /\ UNCHANGED <<manifests, by_type, provides, swap, last, jobs, heap, worker, rt, store,
                     peers, now, hb, listener, stream, pair, boot>>

\* the end of the with block: the lock is released, the call returns or
\* raises
LockRelease(t) ==
  LET th == lock.th[t]
  IN  /\ th.pc = "release"
      /\ lock' = [lock EXCEPT !.owner = "", !.th[t] = ThreadIdle]
      /\ last' = Call(th.op, th.x, None, "", th.error, <<>>, <<>>)
      /\ UNCHANGED <<capVars, jobs, heap, worker, rt, store, peers, now, hb, listener,
                     stream, pair, boot>>

NextLock ==
  \/ \E m \in Manifests : Register(m)
  \/ \E t \in Threads : \E x \in Names : LockActivate(t, x)
  \/ \E t \in Threads : \E x \in Names : LockDeactivate(t, x)
  \/ \E t \in Threads : LockLoad(t)
  \/ \E t \in Threads : LockExec(t)
  \/ \E t \in Threads : LockCleanup(t)
  \/ \E t \in Threads : LockRelease(t)

SpecLock == Init /\ [][NextLock]_vars

\* The loader with capabilities whose activation raises.
NextRaise ==
  \/ \E m \in RaisingManifests : Register(m)
  \/ \E x \in Names : Activate(x)
  \/ \E x \in Names : Deactivate(x)
  \/ \E m \in RaisingManifests : HotSwap(m)

SpecRaise == Init /\ [][NextRaise]_vars

\* ---------------------------------------------------------------------
\* v10: two nodes, their stores and the STORE_SYNC packets between them
\* ---------------------------------------------------------------------
\* the last call: the operation, the node and the version handed to set
StoreCall(op, n, version) == [op |-> op, n |-> n, version |-> version]

\* a write to a store: the exports in flight are no longer the sender's
\* latest, and what was merged before does not count
Stale(wire) == {[p EXCEPT !.late = FALSE] : p \in wire}

StoreFrame ==
  UNCHANGED <<capVars, last, jobs, heap, worker, rt, lock, peers, now, hb, listener, stream,
              pair, boot>>

\* CLI "store set key=value": set(key, value)
StorePut(n, key, value) ==
  LET s == store_put(store.node[n], key, value)
  IN  /\ store.node[n].versions[key] < MaxVersion
      /\ store' = [store EXCEPT !.node[n] = s, !.wire = Stale(@), !.merged = {},
                                !.call = StoreCall("put", n, 0)]
      /\ StoreFrame

\* set(key, value, version) called with a version
StoreSet(n, key, value, version) ==
  LET s == store_set(store.node[n], key, value, version)
  IN  /\ store' = [store EXCEPT !.node[n] = s, !.wire = Stale(@), !.merged = {},
                                !.call = StoreCall("set", n, version)]
      /\ StoreFrame

\* CLI "store del key": delete(key)
StoreDelete(n, key) ==
  LET s == store_delete(store.node[n], key)
  IN  /\ store.node[n].versions[key] < MaxVersion
      /\ store' = [store EXCEPT !.node[n] = s, !.wire = Stale(@), !.merged = {},
                                !.call = StoreCall("delete", n, 0)]
      /\ StoreFrame

\* a STORE_SYNC packet with the node's export() leaves for the other node
StoreSend(n) ==
  /\ \A p \in store.wire : p.src # n
  /\ store' = [store EXCEPT !.wire = @ \cup {[src |-> n, late |-> TRUE,
                                              store |-> export(store.node[n])]},
                            !.call = StoreCall("send", n, 0)]
  /\ StoreFrame

\* the listener of the other node merges the packet
StoreReceive(p) ==
  LET n == Other(p.src)
  IN  /\ p \in store.wire
      /\ store' = [store EXCEPT
                     !.node[n] = store_sync(@, p.store, ItemsOf(DOMAIN p.store.data)),
                     !.wire = @ \ {p},
                     !.merged = IF p.late THEN @ \cup {n} ELSE @,
                     !.call = StoreCall("sync", n, 0)]
      /\ StoreFrame

NextStore ==
  \/ \E n \in NodeIds : \E key \in Keys : \E value \in Values : StorePut(n, key, value)
  \/ \E n \in NodeIds : \E key \in Keys : \E value \in Values :
        \E version \in 0..MaxVersion : StoreSet(n, key, value, version)
  \/ \E n \in NodeIds : \E key \in Keys : StoreDelete(n, key)
  \/ \E n \in NodeIds : StoreSend(n)
  \/ \E p \in store.wire : StoreReceive(p)

SpecStore == Init /\ [][NextStore]_vars

TypeOK ==
  /\ \A i \in Ids : manifests[i] = None \/ manifests[i] \in Manifests
  /\ \A i \in Ids : loaded[i] = None \/ loaded[i].manifest \in Manifests
  /\ \A i \in Ids : active[i] = None \/ active[i].manifest \in Manifests
  /\ swap.pc \in {"idle", "deactivate", "drop", "register", "activate"}

\* ---------------------------------------------------------------------
\* The dependency graph of a registry
\* ---------------------------------------------------------------------
Registered(reg) == {i \in Ids : reg.manifests[i] # None}

\* the capability a dependency name stands for: the id itself when it is
\* registered, else its provider, else NoId
Target(reg, name) ==
  IF name \in Ids /\ reg.manifests[name] # None THEN name
  ELSE IF name \in Names THEN reg.provides[name] ELSE NoId

DirectDeps(reg, id) ==
  {Target(reg, d) : d \in Range(reg.manifests[id].dependencies)} \ {NoId}

RECURSIVE ReachIn(_, _, _)
ReachIn(reg, S, n) ==
  IF n = 0 THEN S
  ELSE ReachIn(reg, S \cup UNION {DirectDeps(reg, i) : i \in S}, n - 1)

\* the transitive dependency closure of a registered id (itself excluded
\* unless it lies on a cycle)
DepClosure(reg, id) == ReachIn(reg, DirectDeps(reg, id), Cardinality(Ids))

\* every dependency name of the id and of its closure has a target
Resolvable(reg, id) ==
  \A i \in {id} \cup DepClosure(reg, id) :
     \A d \in Range(reg.manifests[i].dependencies) : Target(reg, d) # NoId

CycleFrom(reg, id) ==
  \E i \in {id} \cup DepClosure(reg, id) : i \in DepClosure(reg, i)

Acyclic(reg) == \A i \in Registered(reg) : i \notin DepClosure(reg, i)

FullyResolvable(reg) == \A i \in Registered(reg) : Resolvable(reg, i)

NoDuplicates(seq) == \A i, j \in DOMAIN seq : seq[i] = seq[j] => i = j

\* every occurrence of a capability in the plan comes after an occurrence
\* of each capability of its dependency closure
DepsFirst(reg, plan) ==
  \A k \in DOMAIN plan :
     \A d \in DepClosure(reg, plan[k]) : \E j \in 1..(k - 1) : plan[j] = d

ActiveIds == {i \in Ids : active[i] # None}

\* the active set after the first n events of a log
RECURSIVE ActiveAfter(_, _, _)
ActiveAfter(S, log, n) ==
  IF n = 0 THEN S
  ELSE LET before == ActiveAfter(S, log, n - 1)
       IN  IF log[n].ev = "activate" THEN before \cup {log[n].id}
           ELSE before \ {log[n].id}

\* ---------------------------------------------------------------------
\* Properties
\* ---------------------------------------------------------------------

\* C1: for a registry whose dependency graph is acyclic and fully
\* resolvable, resolve(id) of a registered id lists every capability after
\* all of its transitive dependencies and lists no capability twice.
C1_ResolveOrderedOnce ==
  (/\ last.op = "resolve"
   /\ last.name \in Registered(registry)
   /\ Acyclic(registry)
   /\ FullyResolvable(registry))
  => /\ last.error = ""
     /\ DepsFirst(registry, last.plan)
     /\ NoDuplicates(last.plan)

\* C2: when the dependency graph reachable from id has a cycle (and every
\* name in it resolves, so that no other error comes first), resolve(id)
\* fails with CircularDependency and returns no plan.
C2_CycleFails ==
  (/\ last.op = "resolve"
   /\ last.name \in Registered(registry)
   /\ Resolvable(registry, last.name)
   /\ CycleFrom(registry, last.name))
  => /\ last.error = "CircularDependency"
     /\ last.plan = <<>>

\* C3: at the moment a capability enters the active set, every capability
\* of its transitive dependency closure (per the registry at that moment)
\* is already in the active set.
C3_DepsActiveFirst ==
  [][\A k \in DOMAIN last'.log :
       last'.log[k].ev = "activate"
       => DepClosure(registry', last'.log[k].id) \ {last'.log[k].id}
            \subseteq ActiveAfter(ActiveIds, last'.log, k - 1)]_vars

\* C4: when activate(id) returns without raising, every id of resolve(id)
\* is active and every name in the exports of id's manifest is a key of
\* the shared symbol table.
C4_ActivatePostcondition ==
  (last.op = "activate" /\ last.error = "")
  => /\ \A i \in Range(resolve(registry, last.name).result) :
          active[i] # None /\ active[i].state = ACTIVE
     /\ Range(manifests[last.name].exports) \subseteq DOMAIN shared_namespace

\* C5: hot_swap(m') on an id whose active instance has hot_swappable =
\* false returns false and changes neither the registry nor the loaded
\* set, the active set, the instance or the shared symbol table.
C5_RefusedSwapChangesNothing ==
  [][(/\ last'.op = "hot_swap"
      /\ active[last'.name] # None
      /\ ~active[last'.name].manifest.hot_swappable)
     => /\ last'.ret = "False"
        /\ UNCHANGED <<manifests, by_type, provides, loaded, active,
                       shared_namespace>>]_vars

\* a refused hot_swap of a different generation has happened
C5_Witness ==
  /\ last.op = "hot_swap"
  /\ last.ret = "False"
  /\ active[last.name] # None
  /\ ~active[last.name].manifest.hot_swappable
  /\ active[last.name].manifest.genome_hash # last.manifest.genome_hash

\* C6: when hot_swap(m') returns true, the active instance of the id is
\* built from m': its manifest has m''s genome_hash and its source is the
\* source of m''s genome.
C6_SwapInstallsNew ==
  (last.op = "hot_swap" /\ last.ret = "True")
  => /\ active[last.name] # None
     /\ active[last.name].manifest.genome_hash = last.manifest.genome_hash
     /\ active[last.name].source = decompress(last.manifest.genome)

\* C7: a loaded instance in state failed stays failed as long as the
\* loader holds the same generation (same genome_hash) of the id.
C7_FailedIsTerminal ==
  [][\A i \in Ids :
       (/\ loaded[i] # None
        /\ loaded[i].state = FAILED
        /\ loaded'[i] # None
        /\ loaded'[i].manifest.genome_hash = loaded[i].manifest.genome_hash)
       => loaded'[i].state = FAILED]_vars

\* C8: while hot_swap(m') runs on an id that was active and hot-swappable
\* when it started, a reader of the active set in another thread always
\* finds the id in it.
C8_SwapIsAtomic ==
  [][(/\ last'.op = "list_active"
      /\ swap.pc # "idle"
      /\ swap.old_cap # None)
     => swap.manifest.id \in last'.seen]_vars

\* C9: load(id) of a registered manifest whose genome does not verify
\* raises the integrity error and leaves id out of the loaded and the
\* active set; activate(id) of such a manifest does not make it active.
C9_BadGenomeRejected ==
  (/\ last.op \in {"load", "activate"}
   /\ last.name \in Registered(registry)
   /\ ~verify(manifests[last.name].genome, manifests[last.name].genome_hash))
  => /\ active[last.name] = None
     /\ last.op = "load"
          => /\ last.error = "ValueError: Genome integrity check failed"
             /\ loaded[last.name] = None

\* C10: right after register(m), whatever it returned, the registry holds
\* under m.id a manifest with m's genome_hash.
C10_RegisteredHash ==
  last.op = "register"
  => /\ manifests[last.name] # None
     /\ manifests[last.name].genome_hash = last.manifest.genome_hash

\* a register call has replaced an earlier generation of the id
C10_Witness ==
  /\ last.op = "register"
  /\ last.ret = "True"
  /\ \E t \in Types :
       Cardinality({k \in DOMAIN by_type[t] : by_type[t][k] = last.name}) >= 2

\* list_by_type(type): the manifests of the ids listed under the type
list_by_type(reg, type) ==
  [k \in DOMAIN reg.by_type[type] |-> reg.manifests[reg.by_type[type][k]]]

\* how often an id is listed under a type
Listed(reg, type, id) ==
  Cardinality({k \in DOMAIN reg.by_type[type] : reg.by_type[type][k] = id})

\* C11: register(m) on a registry that holds m.id under the same
\* genome_hash returns false and leaves the id index, the type index and
\* the provides index as they were; registering a manifest twice gives the
\* registry that registering it once gives.
C11_SameGenerationIsNoop ==
  [][/\ (/\ last'.op = "register"
         /\ manifests[last'.name] # None
         /\ manifests[last'.name].genome_hash = last'.manifest.genome_hash)
        => /\ last'.ret = "False"
           /\ UNCHANGED <<manifests, by_type, provides>>
     /\ last'.op = "register"
        => register(registry', last'.manifest) = registry']_vars

\* a register call of a generation already stored has returned false
C11_Witness ==
  /\ last.op = "register"
  /\ last.ret = "False"
  /\ manifests[last.name] = last.manifest
  /\ Registrations >= 2

\* C12: the type index partitions the registry: every registered id is
\* listed exactly once, under the type of its current manifest and under
\* no other type, and no unregistered id is listed.
C12_TypeIndexPartitions ==
  \A i \in Ids : \A t \in Types :
     Listed(registry, t, i) =
       IF manifests[i] # None /\ manifests[i].type = t THEN 1 ELSE 0

\* the place of a status in the order pending < running < {completed, failed}
Rank(status) ==
  CASE status = "pending" -> 0
    [] status = "running" -> 1
    [] OTHER -> 2

\* the job dict the table holds at its k-th key
JobAt(k) == heap[jobs[k].obj]

Terminal == {"completed", "failed"}

\* C13: for every job id, the status read from the job table never goes
\* back from running or a terminal status to an earlier status, whatever
\* the interleaving of submissions and worker steps.
C13_StatusMonotonic ==
  [][\A k \in DOMAIN jobs :
       Rank(heap'[jobs'[k].obj].status) >= Rank(JobAt(k).status)]_vars

\* C14: claiming is exclusive. A claim takes a job that is pending and
\* that no other worker holds, and leaves it running, so that two workers
\* never hold (and execute) the same job dict. A job is one dict made by
\* one _queue_job call.
C14_ClaimIsExclusive ==
  /\ [][\A w \in Workers :
          (worker[w].pc = "idle" /\ worker'[w].pc = "claimed")
            => /\ heap[worker'[w].job].status = "pending"
               /\ heap'[worker'[w].job].status = "running"
               /\ \A v \in Workers \ {w} : worker[v].job # worker'[w].job]_vars
  /\ [](\A w \in Workers : \A v \in Workers \ {w} :
          worker[w].job # 0 => worker[w].job # worker[v].job)

\* two workers hold a job each at the same time
C14_Witness ==
  /\ worker["w1"].pc = "claimed"
  /\ worker["w2"].pc = "claimed"
  /\ worker["w1"].job # worker["w2"].job

C16_FailedHasExitCode ==
  \A obj \in DOMAIN heap :
     heap[obj].status = "failed"
       => heap[obj].exit_code # Missing /\ heap[obj].exit_code # Some(0)

\* C17: when the worker is done with a job whose executor's child process
\* outlived the timeout, the job is failed with exit code -1 and its
\* error text holds "Timeout", under the python and the container
\* executor.
C17_TimeoutIsMinusOne ==
  [][\A w \in Workers :
       (worker[w].pc # "idle" /\ worker'[w].pc = "idle" /\ worker[w].outcome = "timeout")
         => /\ heap'[worker[w].job].status = "failed"
            /\ heap'[worker[w].job].exit_code = Some(-1)
            /\ Mentions(heap'[worker[w].job].error, "Timeout")]_vars

\* C18: when the worker is done with a job whose type has no executor,
\* the job is failed with exit code 1 and an error text naming the type,
\* and no executor was called for it.
C18_UnknownTypeFails ==
  [][\A w \in Workers :
       (/\ worker[w].pc # "idle"
        /\ worker'[w].pc = "idle"
        /\ ExecutorOf(heap[worker[w].job].type) = "")
         => /\ heap'[worker[w].job].status = "failed"
            /\ heap'[worker[w].job].exit_code = Some(1)
            /\ Mentions(heap'[worker[w].job].error, heap[worker[w].job].type.v)
            /\ worker[w].ran = ""]_vars

\* C19: a packet that decrypts to a src equal to the node's own id is
\* ignored: the listener's turn on it changes neither the peer registry
\* nor the capability registry nor the job table, and the node's own id is
\* never a key of the peer registry.
C19_OwnPacketsIgnored ==
  /\ [](peers[node_id] = None)
  /\ [][\A d \in Datagrams :
          (decrypt(d) # None /\ decrypt(d).src = node_id /\ Listen(d))
            => /\ last'.ret = "ignored"
               /\ UNCHANGED <<manifests, by_type, provides, jobs, heap, peers>>]_vars

\* the listener has dropped a packet of its own node while it knows a peer
C19_Witness ==
  /\ last.op = "_listen"
  /\ last.name = node_id
  /\ last.ret = "ignored"
  /\ get_peers(peers) # {}

\* C20: every peer in get_peers() was heard from at most
\* timeout + heartbeat seconds ago, also after a heartbeat broadcast whose
\* send failed.
C20_StalePeersEvicted ==
  \A n \in get_peers(peers) : now - peers[n].seen <= timeout + heartbeat

\* the delivery of the n-th published manifest is over
Delivered(n) ==
  Taken(stream) >= n /\ ~(Taken(stream) = n /\ stream.pc = "deliver")

\* the calls are made manifest after manifest in publish order, and for
\* one manifest subscriber after subscriber in registration order
CallsInOrder ==
  /\ \A i \in DOMAIN stream.calls :
       /\ stream.calls[i].manifest = stream.published[stream.calls[i].n]
       /\ stream.calls[i].cb = stream.subscribers[stream.calls[i].s]
  /\ \A i \in DOMAIN stream.calls :
       IF i > 1 /\ stream.calls[i - 1].n = stream.calls[i].n
       THEN stream.calls[i].s = stream.calls[i - 1].s + 1
       ELSE /\ stream.calls[i].s = 1
            /\ i > 1 => stream.calls[i - 1].n < stream.calls[i].n

\* every subscriber there when a manifest was taken has been called with
\* it once its delivery is over
AllCalled ==
  \A n \in 1..Len(stream.published) :
    Delivered(n) =>
      \A s \in DOMAIN stream.subscribers :
        stream.subscribed[s] < n =>
          \E i \in DOMAIN stream.calls :
            stream.calls[i].n = n /\ stream.calls[i].s = s

C27_NothingDeliveredAfterStop ==
  ~stream.running =>
     \A i \in DOMAIN stream.calls : stream.calls[i].n <= stream.stopped

\* C22: the listener loop goes on after every datagram, also one that
\* does not decrypt, one that is no envelope and one whose opcode handler
\* raises; a datagram that does not decrypt changes neither the peers,
\* the registry, the stream nor the job table.
C22_ListenerSurvives ==
  [][\A d \in WireDatagrams :
       Listen(d) =>
         /\ listener'
         /\ decrypt(d) = None =>
              UNCHANGED <<peers, manifests, by_type, provides, stream, jobs, heap>>]_vars

\* the listener is running after a datagram whose handler raised
C22_Witness ==
  /\ last.op = "_listen"
  /\ last.error = "ValueError"
  /\ listener

\* C23: on CAPABILITY_ANNOUNCE every manifest of the payload is
\* registered, and every one that is new to the registry is also published
\* to the stream.
C23_AnnouncedIsPublished ==
  [][\A d \in WireDatagrams :
       (/\ Listen(d)
        /\ decrypt(d) # None
        /\ IsEnvelope(decrypt(d))
        /\ d.pkt.op = "CAPABILITY_ANNOUNCE"
        /\ ~FromDictRaises(d.pkt.manifest)) =>
          /\ get(registry', d.pkt.manifest.id) # None
          /\ get(registry', d.pkt.manifest.id).genome_hash = d.pkt.manifest.genome_hash
          /\ registerReturns(registry, from_dict(d.pkt.manifest)) =>
               stream'.published = Append(stream.published, from_dict(d.pkt.manifest))]_vars

\* the n-th published manifest is in the registry, by id and genome hash
RegisteredNth(n) ==
  /\ get(registry, stream.published[n].id) # None
  /\ get(registry, stream.published[n].id).genome_hash = stream.published[n].genome_hash

\* C25: a node that receives CAPABILITY_REQUEST broadcasts a
\* CAPABILITY_RESPONSE with the manifest exactly when the id is in its
\* registry; a node that receives CAPABILITY_RESPONSE has, while its stream
\* runs, the carried manifest registered and delivered to the subscribers
\* of its stream in the end.
C25_RequestAnsweredResponseRegistered ==
  /\ [][\A d \in StreamDatagrams :
          (Listen(d) /\ d.pkt.op = "CAPABILITY_REQUEST") =>
             last'.log =
               IF get(registry, d.pkt.id) # None
               THEN <<Packet(node_id, "CAPABILITY_RESPONSE", Absent,
                             to_dict(get(registry, d.pkt.id)))>>
               ELSE <<>>]_vars
  /\ [][\A d \in StreamDatagrams :
          (Listen(d) /\ d.pkt.op = "CAPABILITY_RESPONSE") =>
             stream'.published = Append(stream.published, from_dict(d.pkt.manifest))]_vars
  /\ \A n \in 1..(MaxPublish + 1) :
       (Len(stream.published) >= n)
          ~> (~stream.running \/ (Delivered(n) /\ RegisteredNth(n)))

\* a request was answered with the manifest that a response had brought
\* into the registry through the stream
C25_Witness ==
  /\ last.op = "_listen"
  /\ last.ret = "CAPABILITY_REQUEST"
  /\ Len(last.log) = 1
  /\ Len(stream.published) >= 1
  /\ Delivered(1)
  /\ RegisteredNth(1)
  /\ last.log[1].manifest = to_dict(stream.published[1])

\* a body that is not valid JSON, not a JSON object, or, for /inject,
\* names an unknown capability type
Malformed(path, body) ==
  \/ body \in NoObjects
  \/ path = <<"inject">> /\ body.type \notin {Str(t) : t \in Types}

\* C28: a POST to /inject or /submit with a malformed body is answered 400
\* with an error text and leaves the registry, the stream and the job
\* table unchanged; a POST or GET to an unknown path is answered 404 and
\* changes no state.
C28_MalformedIs400UnknownIs404 ==
  /\ [][\A path \in PostPaths : \A body \in BodiesOf(path) :
          HttpPost(path, body) =>
            /\ (path \in {<<"inject">>, <<"submit">>} /\ Malformed(path, body)) =>
                 /\ last'.ret = "400"
                 /\ last'.error # ""
                 /\ UNCHANGED <<manifests, by_type, provides, stream, jobs, heap>>
            /\ path \notin {<<"inject">>, <<"submit">>} =>
                 /\ last'.ret = "404"
                 /\ UNCHANGED <<capVars, nodeVars>>]_vars
  /\ [][HttpGet(<<"nope">>) => (last'.ret = "404" /\ UNCHANGED <<capVars, nodeVars>>)]_vars

\* two started nodes that share a swarm key
Swarm(a, b) ==
  a # b /\ pair[a].up /\ pair[b].up /\ pair[a].key = pair[b].key

\* C21: two running nodes with the same swarm key on a broadcast domain
\* that delivers have each other in get_peers() within twice the heartbeat
\* interval of both being started, and a peer that goes on sending its
\* heartbeats is never evicted.
C21_PeersFoundAndKept ==
  /\ [](\A a, b \in NodeIds :
          (/\ Swarm(a, b)
           /\ now >= pair[a].since + 2 * heartbeat
           /\ now >= pair[b].since + 2 * heartbeat) =>
             b \in get_peers(pair[a].peers))
  /\ [][\A a, b \in NodeIds :
          (Swarm(a, b) /\ b \in get_peers(pair[a].peers)) =>
             b \in get_peers(pair'[a].peers)]_vars

\* two nodes of one swarm, started at different seconds, know each other
\* later than the peer timeout after the first packet
C21_Witness ==
  /\ Swarm("n1", "n2")
  /\ pair["n1"].since # pair["n2"].since
  /\ now > pair["n2"].since + timeout + heartbeat
  /\ now > pair["n1"].since + timeout + heartbeat
  /\ "n2" \in get_peers(pair["n1"].peers)
  /\ "n1" \in get_peers(pair["n2"].peers)

\* C24: after a node has accepted a POST /inject, every node of its swarm
\* that receives the broadcast has a manifest with the same id and genome
\* hash in its registry and serves it from GET /capability/<id>.
C24_InjectedReachesSwarm ==
  [][\A a, b \in NodeIds : \A body \in PairBodies :
       (PairInject(a, body) /\ Swarm(a, b)) =>
          LET manifest == inject_manifest(body)
              served == do_GET(pair'[b].registry, <<"capability", manifest.id>>)
          IN  /\ get(pair'[b].registry, manifest.id) # None
              /\ get(pair'[b].registry, manifest.id).genome_hash = manifest.genome_hash
              /\ served.status = "200"
              /\ served.sent.id = manifest.id
              /\ served.sent.genome_hash = manifest.genome_hash]_vars

\* the other node of the swarm took the second version of an id it held
C24_Witness ==
  /\ last.op = "do_POST"
  /\ \E a, b \in NodeIds :
       /\ Swarm(a, b)
       /\ last.name = a
       /\ Len(pair[a].queue) = 2
       /\ pair[a].queue[1].genome_hash # pair[a].queue[2].genome_hash
       /\ get(pair[b].registry, last.manifest.id) # None
       /\ get(pair[b].registry, last.manifest.id).genome_hash = last.manifest.genome_hash

\* the ids of a registry and of a loader's active set
RegisteredIds(reg) == {i \in DOMAIN reg.manifests : reg.manifests[i] # None}

ActiveIn(L) == {i \in DOMAIN L.active : L.active[i] # None}

\* the first n elements of a sequence
Prefix(seq, n) == [k \in 1..n |-> seq[k]]

\* C29: the bootstrap registers the eight built-in manifests and activates
\* them in the order config, identity, hardware, mesh, container, python,
\* blender, quine; when every built-in source executes without error the
\* registry holds exactly the eight manifests and the active set is
\* exactly their ids.
C29_BootstrapRegistersAndActivates ==
  /\ Len(boot.tried) <= 8
  /\ boot.tried = Prefix(<<"core.config", "core.identity", "core.hardware", "network.mesh",
                           "compute.container", "compute.python", "compute.blender",
                           "quine.self">>, Len(boot.tried))
  /\ boot.pc \notin {"register", "activate"} =>
       /\ Len(boot.tried) = 8
       /\ RegisteredIds(boot.registry) = CoreIds
       /\ Cardinality(RegisteredIds(boot.registry)) = 8
       /\ \A i \in DOMAIN create_core_capabilities :
            get(boot.registry, create_core_capabilities[i].id) = create_core_capabilities[i]
       /\ boot.log = <<>> => ActiveIn(boot.loader) = CoreIds
  /\ boot.makedirs => boot.log = <<>>

\* a kernel constructed with all eight built-ins active
C29_Witness ==
  /\ boot.pc = "started"
  /\ boot.log = <<>>
  /\ ActiveIn(boot.loader) = CoreIds

\* C30: when the activation of a built-in fails the kernel logs it, still
\* attempts every remaining built-in in order and completes its startup:
\* the mesh, the worker loop and the HTTP listener are started.
C30_BadCapabilityDoesNotHaltStartup ==
  boot.log # <<>> =>
    /\ boot.tried = Prefix(core_caps, Len(boot.tried))
    /\ boot.pc \notin {"register", "activate"} => boot.tried = core_caps
    /\ boot.pc # "crashed"

\* C31: deactivate(id) on an active id leaves the capability suspended and
\* out of the active set and leaves the shared symbol table as it was;
\* deactivate on an id that is not active changes nothing in the loader;
\* and no call of the loader ever removes a key of the shared symbol table.
C31_DeactivateKeepsSymbols ==
  [][ /\ DOMAIN shared_namespace \subseteq DOMAIN shared_namespace'
      /\ \A x \in Names :
           Deactivate(x) =>
             IF x \in Ids /\ active[x] # None
             THEN /\ active' = [active EXCEPT ![x] = None]
                  /\ loaded'[x] # None /\ loaded'[x].state = SUSPENDED
                  /\ \A i \in Ids \ {x} : loaded'[i] = loaded[i]
                  /\ shared_namespace' = shared_namespace
             ELSE UNCHANGED <<loaded, active, shared_namespace>> ]_vars

\* a capability that exported a symbol has been deactivated, and the symbol
\* is still bound
C31_Witness ==
  /\ last.op = "deactivate"
  /\ last.log # <<>>
  /\ loaded[last.name] # None
  /\ Range(loaded[last.name].manifest.exports) \cap DOMAIN shared_namespace # {}

\* C32: while code of a capability runs inside the loader (its source or
\* entry point during activate, its __cleanup__ during deactivate), no thread
\* holds the loader's lock.
C32_UserCodeOutsideLocks ==
  \A t \in Threads : lock.th[t].pc \in UserCode => lock.owner = ""

\* the name, or a name of its dependency closure, stands for no capability
\* of the registry
Unresolved(reg, x) ==
  Target(reg, x) = NoId \/ ~Resolvable(reg, Target(reg, x))

\* C33: activate(x) of a name whose dependency closure holds a name that is
\* neither a registered id nor a provided name raises the resolver's error
\* and leaves the loaded set, the active set and the shared symbol table as
\* they were.
C33_UnresolvedActivatesNothing ==
  [][\A x \in Names :
       (Activate(x) /\ Unresolved(registry, x)) =>
          /\ last'.error = "ValueError: Cannot resolve capability"
          /\ UNCHANGED <<loaded, active, shared_namespace>>]_vars

\* C34: when the activation step of a capability raised in activate(x), the
\* call raises, the capability is in state failed with the error recorded and
\* is not in the active set; and no capability of the active set is in state
\* failed.
C34_RaisedIsFailedNotActive ==
  /\ \A i \in Ids : active[i] # None => active[i].state # FAILED
  /\ (last.op = "activate" /\ last.error \in {"NameError", "EntryError", "SystemExit"}) =>
        \E i \in Ids :
           /\ loaded[i] # None
           /\ loaded[i].state = FAILED
           /\ loaded[i].error = last.error
           /\ active[i] = None

StoresAgree ==
  \A k \in DOMAIN store.node["n1"].data \cap DOMAIN store.node["n2"].data :
     /\ store.node["n1"].data[k] = store.node["n2"].data[k]
     /\ store.node["n1"].versions[k] = store.node["n2"].versions[k]

\* C36: once no store is written any more and each node has merged an
\* export the other sent after the last write, the two stores hold the same
\* value and version for every key both hold.
C36_SyncedStoresAgree == store.merged = NodeIds => StoresAgree

\* C37: every entry of the provides index points to a registered id whose
\* current manifest lists the name among its provides.
C37_ProvidesIndexIsCurrent ==
  \A n \in Names :
     provides[n] # NoId =>
        /\ provides[n] \in Ids
        /\ manifests[provides[n]] # None
        /\ n \in Range(manifests[provides[n]].provides)

\* C38: with hot_swap running in one thread and activate called from
\* others, every capability of the active set is in the loaded set and in
\* state active, and every loaded capability in state active is in the
\* active set.
C38_ActiveSetMatchesStates ==
  /\ \A i \in Ids : active[i] # None =>
        (loaded[i] # None /\ active[i].state = ACTIVE)
  /\ \A i \in Ids : (loaded[i] # None /\ loaded[i].state = ACTIVE) => active[i] # None

\* the activation step of capability_id is the step of the plan that raises
StepRaises(L, reg, plan, capability_id) ==
  \E k \in 1..Len(plan) :
     /\ plan[k] = capability_id
     /\ activateOrder(L, reg, SubSeq(plan, 1, k - 1), <<>>).error = ""
     /\ activateOrder(L, reg, SubSeq(plan, 1, k), <<>>).error # ""

\* C39: when the activation step of the new generation raises inside
\* hot_swap(m') of an active, hot-swappable id, the error leaves hot_swap, the
\* id is left with no active instance, the old instance is no longer in the
\* loaded set, and the registry holds m'.
C39_FailedSwapLeavesNoInstance ==
  [][\A m \in Manifests :
       ( /\ HotSwap(m)
         /\ active[m.id] # None
         /\ active[m.id].manifest.hot_swappable
         /\ manifests[m.id].genome_hash # m.genome_hash
         /\ LET L1   == [deactivate(loader, m.id) EXCEPT !.loaded[m.id] = None]
                reg1 == register(registry, m)
                r    == resolve(reg1, m.id)
            IN  r.error = "" /\ StepRaises(L1, reg1, r.result, m.id) ) =>
           /\ last'.error # ""
           /\ active'[m.id] = None
           /\ loaded'[m.id] # active[m.id]
           /\ loaded'[m.id] = None \/ loaded'[m.id].manifest = m
           /\ manifests'[m.id] = m
           /\ last'.log # <<>> /\ last'.log[1] = Event("deactivate", m.id) ]_vars

\* a hot_swap of an active id has raised
C39_Witness ==
  /\ last.op = "hot_swap"
  /\ last.error # ""
  /\ last.log # <<>>
  /\ last.log[1] = Event("deactivate", last.name)
  /\ manifests[last.name] = last.manifest
  /\ active[last.name] = None
  /\ loaded[last.name] # None
  /\ loaded[last.name].manifest = last.manifest
  /\ loaded[last.name].state = FAILED

\* C40: an activate(x) whose load plan ran every activation step without
\* error returns the active capability and does not raise, also when x is a
\* provided name that the resolver replaces by its provider; and when a later
\* step of the plan raises, what the call activated before stays active while
\* x is not active.
C40_CompletedPlanReturnsCapability ==
  [][\A x \in Names :
       Activate(x) =>
         LET r    == resolve(registry, x)
             done == IF r.error = "" THEN activateOrder(loader, registry, r.result, <<>>)
                     ELSE [L |-> loader, error |-> r.error, log |-> <<>>]
         IN  /\ (~InActive(loader, x) /\ done.error = "") => last'.error = ""
             /\ (~InActive(loader, x) /\ r.error = "" /\ done.error # "") =>
                   /\ x \in Ids => active'[x] = None
                   /\ \A i \in 1..Len(last'.log) :
                        last'.log[i].ev = "activate" => active'[last'.log[i].id] # None ]_vars

====
